---- MODULE Spec2Model ----
(***************************************************************************)
(* cockpit-wicked: the network store (networkReducer) and the operations   *)
(* that drive it (addConnection, updateConnection, deleteConnection,       *)
(* changeConnectionState, fetchInterfaces, fetchConnections, fetchRoutes,  *)
(* addRoute, updateRoute, deleteRoute, listenToInterfacesChanges),         *)
(* modelled from the network context module (src/unnamed/part_005).        *)
(***************************************************************************)
EXTENDS Integers, Sequences, FiniteSets, TLC

VARIABLES state, ops, applied, fetches, nextIfaceId, nextConnId, nextRouteId,
          form, calc

vars == <<state, ops, applied, fetches, nextIfaceId, nextConnId, nextRouteId,
          form, calc>>

(***************************************************************************)
(* Bounds                                                                  *)
(***************************************************************************)
\* number of operations (add, update, delete, state toggle) issued in a run
MaxOps == 2
\* number of discovery answers (fetchInterfaces, fetchConnections) in a run
MaxFetches == 2
\* interface-change notifications are delivered while the next Interface id is
\* at most this
MaxIfaceId == 3
\* routes are created (fetchRoutes, addRoute) while the next Route id is at
\* most this
MaxRouteId == 3

(***************************************************************************)
(* Action types                                                            *)
(***************************************************************************)
SET_INTERFACES == "set_interfaces"
SET_CONNECTIONS == "set_connections"
SET_ROUTES == "set_routes"
UPDATE_ROUTES == "update_routes"
ADD_CONNECTION == "add_connection"
DELETE_CONNECTION == "delete_connection"
UPDATE_CONNECTION == "update_connection"
UPDATE_INTERFACE == "update_interface"
CONNECTION_ERROR == "connection_error"

(***************************************************************************)
(* Values                                                                  *)
(***************************************************************************)
\* a field that is absent from a JavaScript object reads as undefined
Undefined == "undefined"

\* interface types: ethernet (physical) and bridge (virtual)
ETHERNET == "eth"
BRIDGE == "br"

\* Interface.status
IDLE == "idle"
IN_PROGRESS == "in-progress"
ERROR == "error"

\* the devices of the host: a physical one and a virtual one
Devices == { [name |-> "eth0", type |-> ETHERNET], [name |-> "br0", type |-> BRIDGE] }

\* messages of the failures the backend rejects with
BackendErrors == { "wicked failed" }

\* message of the TypeError raised when a reducer case reads a property of undefined
TypeErrorMessage == "TypeError"

\* boot protocols of an IP family
DHCP == "dhcp"
STATIC == "static"
NONE == "none"

\* the changes a form submits: the settings of one IP family
Changes == { [ipv4 |-> [bootProto |-> STATIC, addresses |-> << "192.168.1.5" >>]],
             [ipv6 |-> [bootProto |-> DHCP, addresses |-> << >>]] }

\* the IP settings of a connection nobody configured
DefaultIp == [bootProto |-> NONE, addresses |-> << >>]

(***************************************************************************)
(* Mappings keyed by id (JavaScript objects used as maps)                  *)
(***************************************************************************)
EmptyMap == [k \in {} |-> Undefined]

Put(m, k, v) == [x \in (DOMAIN m) \cup {k} |-> IF x = k THEN v ELSE m[x]]

Remove(m, k) == [x \in (DOMAIN m) \ {k} |-> m[x]]

Values(m) == { m[k] : k \in DOMAIN m }

\* Object.values(m).find(i => i.name === name): integer keys are visited in
\* ascending order, so the match with the lowest id is returned
HasNamed(m, name) == \E k \in DOMAIN m : m[k].name = name

FindByName(m, name) ==
    m[CHOOSE k \in DOMAIN m :
        /\ m[k].name = name
        /\ \A j \in DOMAIN m : m[j].name = name => k <= j]

\* the entries of m under the keys given, as a JavaScript array: a mapping
\* keyed by position, from 0, in ascending order of the keys
Ranked(m, keys) ==
    [i \in 0..(Cardinality(keys) - 1) |->
        m[CHOOSE k \in keys : Cardinality({ j \in keys : j < k }) = i]]

\* Object.values(m)
ObjectValues(m) == Ranked(m, DOMAIN m)

\* Array.isArray(m): the store starts with arrays ([]) and UPDATE_ROUTES stores
\* whatever it is given, so routes may hold an array
IsArray(m) == DOMAIN m = 0..(Cardinality(DOMAIN m) - 1)

(***************************************************************************)
(* Model factories (lib/model)                                             *)
(***************************************************************************)
isVirtual(type) == type = BRIDGE

createInterface(data, id) ==
    LET type == IF "type" \in DOMAIN data THEN data.type ELSE ETHERNET
    IN  [id |-> id, name |-> data.name, type |-> type, virtual |-> isVirtual(type),
         status |-> IDLE, error |-> Undefined]

createConnection(attrs, id) ==
    LET type == IF "type" \in DOMAIN attrs THEN attrs.type ELSE ETHERNET
    IN  [id |-> id, name |-> attrs.name, type |-> type, virtual |-> isVirtual(type),
         exists |-> IF "exists" \in DOMAIN attrs THEN attrs.exists ELSE TRUE,
         ipv4 |-> IF "ipv4" \in DOMAIN attrs THEN attrs.ipv4 ELSE DefaultIp,
         ipv6 |-> IF "ipv6" \in DOMAIN attrs THEN attrs.ipv6 ELSE DefaultIp]

\* attrs.f, undefined when attrs has no f
Attr(attrs, f) == IF f \in DOMAIN attrs THEN attrs[f] ELSE Undefined

createRoute(attrs, id) ==
    [id |-> id, destination |-> Attr(attrs, "destination"),
     gateway |-> Attr(attrs, "gateway"), netmask |-> Attr(attrs, "netmask"),
     device |-> Attr(attrs, "device"), options |-> Attr(attrs, "options")]

\* { ...connection, ...changes }
mergeConnection(connection, changes) ==
    [f \in (DOMAIN connection) \cup (DOMAIN changes) |->
        IF f \in DOMAIN changes THEN changes[f] ELSE connection[f]]

(***************************************************************************)
(* The store: networkReducer                                               *)
(***************************************************************************)
\* the ids a factory hands out for the items of a SET_* payload, base being
\* the first of them
RebuiltIds(payload, base) == { base + i - 1 : i \in 1..Len(payload) }

\* the reducer case reads a property of undefined and raises a TypeError
Raises(st, action) ==
    CASE action.type = DELETE_CONNECTION ->
            /\ action.payload.virtual
            /\ ~HasNamed(st.interfaces, action.payload.name)
      [] action.type = UPDATE_CONNECTION ->
            ~HasNamed(st.interfaces, action.payload.name)
      [] action.type = CONNECTION_ERROR ->
            ~HasNamed(st.interfaces, action.payload.connection.name)
      [] OTHER -> FALSE

\* a SET_INTERFACES that folds the payload into the interfaces it had
ReduceSetInterfacesMerging(st, action, ifaceId) ==
    [st EXCEPT !.interfaces =
        [k \in (DOMAIN st.interfaces) \cup RebuiltIds(action.payload, ifaceId) |->
            IF k \in DOMAIN st.interfaces
            THEN st.interfaces[k]
            ELSE createInterface(action.payload[k - ifaceId + 1], k)]]

ReduceSetInterfaces(st, action, ifaceId) ==
    [st EXCEPT !.interfaces =
        [k \in RebuiltIds(action.payload, ifaceId) |->
            createInterface(action.payload[k - ifaceId + 1], k)]]

ReduceSetConnections(st, action, connId) ==
    [st EXCEPT !.connections =
        [k \in RebuiltIds(action.payload, connId) |->
            createConnection(action.payload[k - connId + 1], k)]]

\* an ADD_CONNECTION that makes an Interface without looking for one of the
\* connection's name
ReduceAddConnectionAlwaysCreating(st, action, ifaceId) ==
    LET conn == action.payload
        iface == createInterface([name |-> conn.name, type |-> conn.type], ifaceId)
    IN  [st EXCEPT !.interfaces = Put(st.interfaces, iface.id, iface),
                   !.connections = Put(st.connections, conn.id, conn)]

ReduceAddConnection(st, action, ifaceId) ==
    LET conn == action.payload
        iface == IF HasNamed(st.interfaces, conn.name)
                 THEN FindByName(st.interfaces, conn.name)
                 ELSE createInterface([name |-> conn.name, type |-> conn.type], ifaceId)
    IN  [st EXCEPT !.interfaces = Put(st.interfaces, iface.id, iface),
                   !.connections = Put(st.connections, conn.id, conn)]

ReduceDeleteConnection(st, action) ==
    LET conn == action.payload
        nextConnections == Remove(st.connections, conn.id)
    IN  IF ~conn.virtual
        THEN [st EXCEPT !.connections = nextConnections]
        ELSE LET iface == FindByName(st.interfaces, conn.name)
             IN  [st EXCEPT !.interfaces = Remove(st.interfaces, iface.id),
                            !.connections = nextConnections]

ReduceUpdateConnection(st, action) ==
    LET iface == FindByName(st.interfaces, action.payload.name)
        updatedIface == [iface EXCEPT !.error = Undefined]
    IN  [st EXCEPT !.interfaces = Put(st.interfaces, iface.id, updatedIface),
                   !.connections = Put(st.connections, action.payload.id, action.payload)]

\* a CONNECTION_ERROR that looks the Interface up under the connection's id
\* instead of by the connection's name
ReduceConnectionErrorById(st, action) ==
    LET id == action.payload.connection.id
    IN  IF id \in DOMAIN st.interfaces
        THEN [st EXCEPT !.interfaces =
                 Put(st.interfaces, id,
                     [st.interfaces[id] EXCEPT !.error = action.payload.error.message])]
        ELSE st

\* a CONNECTION_ERROR that takes the connection that failed out of the store
ReduceConnectionErrorRollingBack(st, action) ==
    LET iface == FindByName(st.interfaces, action.payload.connection.name)
    IN  [st EXCEPT !.interfaces =
             Put(st.interfaces, iface.id, [iface EXCEPT !.error = action.payload.error.message]),
                   !.connections = Remove(st.connections, action.payload.connection.id)]

ReduceConnectionError(st, action) ==
    LET iface == FindByName(st.interfaces, action.payload.connection.name)
    IN  [st EXCEPT !.interfaces =
            Put(st.interfaces, iface.id, [iface EXCEPT !.error = action.payload.error.message])]

ReduceSetRoutes(st, action, routeId) ==
    [st EXCEPT !.routes =
        [k \in RebuiltIds(action.payload, routeId) |->
            createRoute(action.payload[k - routeId + 1], k)]]

ReduceUpdateRoutes(st, action) == [st EXCEPT !.routes = action.payload]

\* a merge that lets the payload's id through
UpdatedInterfaceTakingPayloadId(oldIface, payload) ==
    [f \in (DOMAIN oldIface) \cup (DOMAIN payload) |->
        IF f \in DOMAIN payload THEN payload[f] ELSE oldIface[f]]

\* { ...oldIface, ...action.payload, id: oldIface.id }
UpdatedInterface(oldIface, payload) ==
    [f \in (DOMAIN oldIface) \cup (DOMAIN payload) \cup {"id"} |->
        IF f = "id" THEN oldIface.id
        ELSE IF f \in DOMAIN payload THEN payload[f] ELSE oldIface[f]]

\* an UPDATE_INTERFACE that stores the Interface of a name it does not know
ReduceUpdateInterfaceCreating(st, action) ==
    LET id == IF HasNamed(st.interfaces, action.payload.name)
              THEN FindByName(st.interfaces, action.payload.name).id
              ELSE action.payload.id
    IN  [st EXCEPT !.interfaces = Put(st.interfaces, id, [action.payload EXCEPT !.id = id])]

ReduceUpdateInterface(st, action) ==
    IF ~HasNamed(st.interfaces, action.payload.name)
    THEN st
    ELSE LET oldIface == FindByName(st.interfaces, action.payload.name)
         IN  [st EXCEPT !.interfaces =
                 Put(st.interfaces, oldIface.id, UpdatedInterface(oldIface, action.payload))]

\* a default case that starts the store over
ReduceUnknownResetting(st, action) ==
    [interfaces |-> EmptyMap, connections |-> EmptyMap, routes |-> EmptyMap]

\* default: console.error("Unknown action", ...); return state
ReduceUnknown(st, action) == st

\* ids holds the next id of each factory: [iface, conn, route]
networkReducer(st, action, ids) ==
    CASE action.type = SET_INTERFACES -> ReduceSetInterfaces(st, action, ids.iface)
      [] action.type = SET_CONNECTIONS -> ReduceSetConnections(st, action, ids.conn)
      [] action.type = SET_ROUTES -> ReduceSetRoutes(st, action, ids.route)
      [] action.type = UPDATE_ROUTES -> ReduceUpdateRoutes(st, action)
      [] action.type = ADD_CONNECTION -> ReduceAddConnection(st, action, ids.iface)
      [] action.type = DELETE_CONNECTION -> ReduceDeleteConnection(st, action)
      [] action.type = UPDATE_CONNECTION -> ReduceUpdateConnection(st, action)
      [] action.type = UPDATE_INTERFACE -> ReduceUpdateInterface(st, action)
      [] action.type = CONNECTION_ERROR -> ReduceConnectionError(st, action)
      [] OTHER -> ReduceUnknown(st, action)

\* dispatch(action): the reducer runs on the current state; a reducer that
\* raises leaves the state as it was
Dispatch(st, action, ids) ==
    LET raised == Raises(st, action)
        after == IF raised THEN st ELSE networkReducer(st, action, ids)
    IN  [action |-> action, before |-> st, after |-> after, raised |-> raised]

(***************************************************************************)
(* Operations: what an operation has done so far                           *)
(***************************************************************************)
Dispatched(d) == [ev |-> "dispatch", action |-> d.action, raised |-> d.raised]

Called(what, arg) == [ev |-> "call", what |-> what, arg |-> arg]

\* error is Undefined when the call was fulfilled
Settled(what, error) == [ev |-> "settle", what |-> what, error |-> error]

\* the promise an operation returned
Pending == [st |-> "pending", value |-> << >>]
ResolvedWith(v) == [st |-> "resolved", value |-> << v >>]
ResolvedUndefined == [st |-> "resolved", value |-> << >>]
Rejected(message) == [st |-> "rejected", value |-> << [message |-> message] >>]
\* the function threw before it returned anything
Threw(message) == [st |-> "threw", value |-> << [message |-> message] >>]
\* what a backend call is fulfilled with
BackendResult(what) == [result |-> what]

Ids == [iface |-> nextIfaceId, conn |-> nextConnId, route |-> nextRouteId]

Outcomes == {Undefined} \cup BackendErrors

\* the payloads the backend answers a discovery with
Listings ==
    { << >>,
      << [name |-> "eth0"] >>,
      << [name |-> "eth0"], [name |-> "br0", type |-> BRIDGE] >> }

NewOp(kind, conn, exists, setUp, pc, handle, log) ==
    [kind |-> kind, conn |-> conn, exists |-> exists, setUp |-> setUp,
     pc |-> pc, handle |-> handle, log |-> log]

\* a catch block that reports a failure of its own instead of the caught one
CatchBlockLosingError(st, conn, message, thrown, value) ==
    LET d == Dispatch(st, [type |-> CONNECTION_ERROR,
                           payload |-> [error |-> [message |-> TypeErrorMessage],
                                        connection |-> conn]], Ids)
    IN  [d |-> d,
         handle |-> IF d.raised /\ thrown
                    THEN Rejected(TypeErrorMessage)
                    ELSE value]

\* catch (error) { dispatch({ type: CONNECTION_ERROR, payload: { error, connection } }) }
\* followed by "return value": thrown tells whether a raising reducer makes
\* dispatch itself throw, which then rejects the promise of the async function
CatchBlock(st, conn, message, thrown, value) ==
    LET d == Dispatch(st, [type |-> CONNECTION_ERROR,
                           payload |-> [error |-> [message |-> message],
                                        connection |-> conn]], Ids)
    IN  [d |-> d,
         handle |-> IF d.raised /\ thrown
                    THEN Rejected(TypeErrorMessage)
                    ELSE value]

\* no IP settings form is open
NoForm == [open |-> FALSE]

\* no configuration file is being read or written
NoCalc == [stage |-> "none"]

(***************************************************************************)
(* Discovery: fetchInterfaces, fetchConnections                            *)
(***************************************************************************)
Init ==
    /\ state = [interfaces |-> EmptyMap, connections |-> EmptyMap, routes |-> EmptyMap]
    /\ ops = << >>
    /\ applied = << >>
    /\ nextIfaceId = 1
    /\ nextConnId = 1
    /\ nextRouteId = 1
    /\ form = NoForm
    /\ calc = NoCalc
    /\ fetches = 0

fetchInterfaces ==
    \E result \in Listings :
        LET d == Dispatch(state, [type |-> SET_INTERFACES, payload |-> result], Ids)
        IN  /\ fetches < MaxFetches
            /\ fetches' = fetches + 1
            /\ state' = d.after
            /\ applied' = << d >>
            /\ nextIfaceId' = nextIfaceId + Len(result)
            /\ UNCHANGED <<ops, nextConnId, nextRouteId, form, calc>>

fetchConnections ==
    \E result \in Listings :
        LET d == Dispatch(state, [type |-> SET_CONNECTIONS, payload |-> result], Ids)
        IN  /\ fetches < MaxFetches
            /\ fetches' = fetches + 1
            /\ state' = d.after
            /\ applied' = << d >>
            /\ nextConnId' = nextConnId + Len(result)
            /\ UNCHANGED <<ops, nextIfaceId, nextRouteId, form, calc>>

(***************************************************************************)
(* Operations, one operator per run of synchronous code: each yields the   *)
(* operation's record afterwards (op) and the dispatches it made (ds)      *)
(***************************************************************************)
Finish(op, handle, events) ==
    [op EXCEPT !.pc = "done", !.handle = handle, !.log = op.log \o events]

Await(op, pc, events) ==
    [op EXCEPT !.pc = pc, !.log = op.log \o events]

\* the catch block of an async function, then its return statement
Caught(st, op, what, message, thrown, value) ==
    LET c == CatchBlock(st, op.conn, message, thrown, value)
    IN  [op |-> Finish(op, c.handle, << Settled(what, message), Dispatched(c.d) >>),
         ds |-> << c.d >>]

\* addConnection up to its first await
AddBegin(st, attrs, id) ==
    LET addedConn == createConnection(attrs, id)
        d == Dispatch(st, [type |-> ADD_CONNECTION, payload |-> addedConn], Ids)
    IN  [op |-> NewOp("add", addedConn, attrs.exists, FALSE, "awaitCreate", Pending,
                      << Dispatched(d), Called("addConnection", addedConn) >>),
         ds |-> << d >>]

\* an add that marks every connection as existing, whatever attrs.exists was
MarksExistsAlways(op) == TRUE

\* if (!attrs.exists)
MarksExists(op) == ~op.exists

\* addConnection from the settling of networkClient().addConnection on
AddAfterCreate(st, op, outcome, thrown) ==
    IF outcome # Undefined
    THEN Caught(st, op, "addConnection", outcome, thrown, ResolvedWith(op.conn))
    ELSE IF ~MarksExists(op)
    THEN [op |-> Await(op, "awaitReload",
                       << Settled("addConnection", Undefined),
                          Called("reloadConnection", op.conn.name) >>),
          ds |-> << >>]
    ELSE LET d == Dispatch(st, [type |-> UPDATE_CONNECTION,
                                payload |-> [op.conn EXCEPT !.exists = TRUE]], Ids)
         IN  IF d.raised /\ thrown
             THEN LET c == CatchBlock(d.after, op.conn, TypeErrorMessage, thrown,
                                      ResolvedWith(op.conn))
                  IN  [op |-> Finish(op, c.handle,
                                     << Settled("addConnection", Undefined),
                                        Dispatched(d), Dispatched(c.d) >>),
                       ds |-> << d, c.d >>]
             ELSE [op |-> Await(op, "awaitReload",
                                << Settled("addConnection", Undefined), Dispatched(d),
                                   Called("reloadConnection", op.conn.name) >>),
                   ds |-> << d >>]

\* addConnection and updateConnection from the settling of reloadConnection on
AfterReload(st, op, outcome, thrown) ==
    IF outcome # Undefined
    THEN Caught(st, op, "reloadConnection", outcome, thrown, ResolvedWith(op.conn))
    ELSE [op |-> Finish(op, ResolvedWith(op.conn),
                        << Settled("reloadConnection", Undefined) >>),
          ds |-> << >>]

\* updateConnection up to its first await; the dispatch is outside the try block
\* an updateConnection that sends the backend the connection it was given
UpdateBeginSendingExisting(st, connection, changes, thrown) ==
    LET updatedConn == mergeConnection(connection, changes)
        d == Dispatch(st, [type |-> UPDATE_CONNECTION, payload |-> updatedConn], Ids)
    IN  [op |-> NewOp("update", updatedConn, TRUE, FALSE, "awaitUpdate", Pending,
                      << Dispatched(d), Called("updateConnection", connection) >>),
         ds |-> << d >>]

UpdateBegin(st, connection, changes, thrown) ==
    LET updatedConn == mergeConnection(connection, changes)
        d == Dispatch(st, [type |-> UPDATE_CONNECTION, payload |-> updatedConn], Ids)
    IN  IF d.raised /\ thrown
        THEN [op |-> NewOp("update", updatedConn, TRUE, FALSE, "done",
                           Rejected(TypeErrorMessage), << Dispatched(d) >>),
              ds |-> << d >>]
        ELSE [op |-> NewOp("update", updatedConn, TRUE, FALSE, "awaitUpdate", Pending,
                           << Dispatched(d), Called("updateConnection", updatedConn) >>),
              ds |-> << d >>]

\* updateConnection from the settling of networkClient().updateConnection on
UpdateAfterUpdate(st, op, outcome, thrown) ==
    IF outcome # Undefined
    THEN Caught(st, op, "updateConnection", outcome, thrown, ResolvedWith(op.conn))
    ELSE [op |-> Await(op, "awaitReload",
                       << Settled("updateConnection", Undefined),
                          Called("reloadConnection", op.conn.name) >>),
          ds |-> << >>]

\* a deleteConnection that calls the backend before it dispatches
DeleteBeginCallingFirst(st, connection, thrown) ==
    LET d == Dispatch(st, [type |-> DELETE_CONNECTION, payload |-> connection], Ids)
    IN  [op |-> NewOp("delete", connection, TRUE, FALSE, "awaitRemove", Pending,
                      << Called("removeConnection", connection), Dispatched(d) >>),
         ds |-> << d >>]

\* deleteConnection: the dispatch is outside the try block, and the try block
\* returns the promise chain without awaiting it
DeleteBegin(st, connection, thrown) ==
    LET d == Dispatch(st, [type |-> DELETE_CONNECTION, payload |-> connection], Ids)
    IN  IF d.raised /\ thrown
        THEN [op |-> NewOp("delete", connection, TRUE, FALSE, "done",
                           Threw(TypeErrorMessage), << Dispatched(d) >>),
              ds |-> << d >>]
        ELSE [op |-> NewOp("delete", connection, TRUE, FALSE, "awaitRemove", Pending,
                           << Dispatched(d), Called("removeConnection", connection) >>),
              ds |-> << d >>]

\* .then(() => networkClient().setDownConnection(connection)): a rejection of
\* removeConnection passes through the chain to the returned promise
DeleteAfterRemove(st, op, outcome) ==
    IF outcome # Undefined
    THEN [op |-> Finish(op, Rejected(outcome), << Settled("removeConnection", outcome) >>),
          ds |-> << >>]
    ELSE [op |-> Await(op, "awaitSetDown",
                       << Settled("removeConnection", Undefined),
                          Called("setDownConnection", op.conn) >>),
          ds |-> << >>]

\* the returned promise settles as setDownConnection does
DeleteAfterSetDown(st, op, outcome) ==
    [op |-> Finish(op,
                   IF outcome # Undefined
                   THEN Rejected(outcome)
                   ELSE ResolvedWith(BackendResult("setDownConnection")),
                   << Settled("setDownConnection", outcome) >>),
     ds |-> << >>]

ToggleCall(setUp) == IF setUp THEN "setUpConnection" ELSE "setDownConnection"

\* a state toggle that dispatches an optimistic transition before its call
ToggleBeginOptimistic(st, connection, setUp) ==
    LET d == Dispatch(st, [type |-> UPDATE_CONNECTION, payload |-> connection], Ids)
    IN  [op |-> NewOp("toggle", connection, TRUE, setUp, "awaitToggle", Pending,
                      << Dispatched(d), Called(ToggleCall(setUp), connection) >>),
         ds |-> << d >>]

\* changeConnectionState up to its await
ToggleBegin(st, connection, setUp) ==
    [op |-> NewOp("toggle", connection, TRUE, setUp, "awaitToggle", Pending,
                  << Called(ToggleCall(setUp), connection) >>),
     ds |-> << >>]

\* changeConnectionState from the settling of the backend call on
ToggleAfterCall(st, op, outcome, thrown) ==
    IF outcome # Undefined
    THEN Caught(st, op, ToggleCall(op.setUp), outcome, thrown, ResolvedUndefined)
    ELSE [op |-> Finish(op, ResolvedWith(BackendResult(ToggleCall(op.setUp))),
                        << Settled(ToggleCall(op.setUp), Undefined) >>),
          ds |-> << >>]

(***************************************************************************)
(* Actions                                                                 *)
(***************************************************************************)
\* the state after the dispatches ds made from state st
StateAfter(st, ds) == IF ds = << >> THEN st ELSE ds[Len(ds)].after

\* a new operation starts
Start(r) ==
    /\ Len(ops) < MaxOps
    /\ ops' = Append(ops, r.op)
    /\ applied' = r.ds
    /\ state' = StateAfter(state, r.ds)

\* operation o resumes after the backend call it awaited settled
Resume(o, r) ==
    /\ ops' = [ops EXCEPT ![o] = r.op]
    /\ applied' = r.ds
    /\ state' = StateAfter(state, r.ds)
    /\ UNCHANGED <<fetches, nextIfaceId, nextConnId, nextRouteId, form, calc>>

Waiting(kind, pc) == { o \in DOMAIN ops : ops[o].kind = kind /\ ops[o].pc = pc }

addConnection ==
    \E dev \in Devices, exists \in BOOLEAN :
        LET attrs == [name |-> dev.name, type |-> dev.type, exists |-> exists]
            taken == IF HasNamed(state.interfaces, attrs.name) THEN 0 ELSE 1
        IN  /\ Start(AddBegin(state, attrs, nextConnId))
            /\ nextConnId' = nextConnId + 1
            /\ nextIfaceId' = nextIfaceId + taken
            /\ UNCHANGED <<fetches, nextRouteId, form, calc>>

addConnection_created ==
    \E o \in Waiting("add", "awaitCreate"), outcome \in Outcomes, thrown \in BOOLEAN :
        Resume(o, AddAfterCreate(state, ops[o], outcome, thrown))

addConnection_reloaded ==
    \E o \in Waiting("add", "awaitReload"), outcome \in Outcomes, thrown \in BOOLEAN :
        Resume(o, AfterReload(state, ops[o], outcome, thrown))

updateConnection ==
    \E connection \in Values(state.connections), changes \in Changes, thrown \in BOOLEAN :
        /\ Start(UpdateBegin(state, connection, changes, thrown))
        /\ UNCHANGED <<fetches, nextIfaceId, nextConnId, nextRouteId, form, calc>>

updateConnection_updated ==
    \E o \in Waiting("update", "awaitUpdate"), outcome \in Outcomes, thrown \in BOOLEAN :
        Resume(o, UpdateAfterUpdate(state, ops[o], outcome, thrown))

updateConnection_reloaded ==
    \E o \in Waiting("update", "awaitReload"), outcome \in Outcomes, thrown \in BOOLEAN :
        Resume(o, AfterReload(state, ops[o], outcome, thrown))

deleteConnection ==
    \E connection \in Values(state.connections), thrown \in BOOLEAN :
        /\ Start(DeleteBegin(state, connection, thrown))
        /\ UNCHANGED <<fetches, nextIfaceId, nextConnId, nextRouteId, form, calc>>

deleteConnection_removed ==
    \E o \in Waiting("delete", "awaitRemove"), outcome \in Outcomes :
        Resume(o, DeleteAfterRemove(state, ops[o], outcome))

deleteConnection_setDown ==
    \E o \in Waiting("delete", "awaitSetDown"), outcome \in Outcomes :
        Resume(o, DeleteAfterSetDown(state, ops[o], outcome))

changeConnectionState ==
    \E connection \in Values(state.connections), setUp \in BOOLEAN :
        /\ Start(ToggleBegin(state, connection, setUp))
        /\ UNCHANGED <<fetches, nextIfaceId, nextConnId, nextRouteId, form, calc>>

changeConnectionState_settled ==
    \E o \in Waiting("toggle", "awaitToggle"), outcome \in Outcomes, thrown \in BOOLEAN :
        Resume(o, ToggleAfterCall(state, ops[o], outcome, thrown))

Next ==
    \/ fetchInterfaces
    \/ fetchConnections
    \/ addConnection
    \/ addConnection_created
    \/ addConnection_reloaded
    \/ updateConnection
    \/ updateConnection_updated
    \/ updateConnection_reloaded
    \/ deleteConnection
    \/ deleteConnection_removed
    \/ deleteConnection_setDown
    \/ changeConnectionState
    \/ changeConnectionState_settled

Spec == Init /\ [][Next]_vars

\* the store under add and delete operations and resyncs of the connections
\* only: every Interface it comes to hold was made by ADD_CONNECTION
NextAddDelete ==
    \/ fetchConnections
    \/ addConnection
    \/ addConnection_created
    \/ addConnection_reloaded
    \/ deleteConnection
    \/ deleteConnection_removed
    \/ deleteConnection_setDown

SpecAddDelete == Init /\ [][NextAddDelete]_vars

(***************************************************************************)
(* The store under discovery, interface-change notifications, route        *)
(* operations and actions of no known type                                 *)
(***************************************************************************)
\* the link states a notification reports
Links == { "up", "down" }

\* the Interface a notification carries: built anew by the backend client,
\* with an id of its own and no error field
NotifiedInterface(dev, id, link) ==
    LET made == createInterface(dev, id)
    IN  [f \in ((DOMAIN made) \ {"error"}) \cup {"link"} |->
            IF f = "link" THEN link ELSE made[f]]

\* the callback listenToInterfacesChanges registers with onInterfaceChange
onInterfaceChange ==
    \E dev \in Devices, link \in Links :
        LET iface == NotifiedInterface(dev, nextIfaceId, link)
            d == Dispatch(state, [type |-> UPDATE_INTERFACE, payload |-> iface], Ids)
        IN  /\ nextIfaceId <= MaxIfaceId
            /\ nextIfaceId' = nextIfaceId + 1
            /\ state' = d.after
            /\ applied' = << d >>
            /\ UNCHANGED <<ops, fetches, nextConnId, nextRouteId, form, calc>>

\* action types the reducer has no case for; actionTypes exports no
\* CONNECTION_ERROR, so actionTypes.CONNECTION_ERROR is undefined
UnknownTypes == { Undefined, "reset" }

\* a component dispatches an action of a type the reducer does not know
dispatchUnknown ==
    \E type \in UnknownTypes :
        LET d == Dispatch(state, [type |-> type, payload |-> << >>], Ids)
        IN  /\ state' = d.after
            /\ applied' = << d >>
            /\ UNCHANGED <<ops, fetches, nextIfaceId, nextConnId, nextRouteId, form, calc>>

\* the payloads the backend answers the discovery of routes with
RouteListings ==
    { << >>,
      << [destination |-> "10.0.0.0", gateway |-> "10.0.0.1"] >>,
      << [destination |-> "10.0.0.0", gateway |-> "10.0.0.1"],
         [destination |-> "default", gateway |-> "192.168.1.1", device |-> "eth0"] >> }

\* the attributes of a route the user adds, and the changes of one the user edits
RouteAttrs == { [destination |-> "172.16.0.0", gateway |-> "172.16.0.1"] }

RouteChanges == { [gateway |-> "192.168.1.254"] }

fetchRoutes ==
    \E result \in RouteListings :
        LET d == Dispatch(state, [type |-> SET_ROUTES, payload |-> result], Ids)
        IN  /\ fetches < MaxFetches
            /\ fetches' = fetches + 1
            /\ state' = d.after
            /\ applied' = << d >>
            /\ nextRouteId' = nextRouteId + Len(result)
            /\ UNCHANGED <<ops, nextIfaceId, nextConnId, form, calc>>

\* the route operations yield the dispatches they make; the call of
\* networkClient().updateRoutes is not awaited and its result is not used
AddRoute(st, routes, attrs, id) ==
    LET route == createRoute(attrs, id)
        nextRoutes == Put(routes, route.id, route)
    IN  << Dispatch(st, [type |-> UPDATE_ROUTES, payload |-> nextRoutes], Ids) >>

UpdateRoute(st, routes, routeId, changes) ==
    LET route == routes[routeId]
        changed == [f \in (DOMAIN route) \cup (DOMAIN changes) |->
                       IF f \in DOMAIN changes THEN changes[f] ELSE route[f]]
        nextRoutes == Put(routes, routeId, changed)
    IN  << Dispatch(st, [type |-> UPDATE_ROUTES, payload |-> nextRoutes], Ids) >>

\* routes.filter exists on an array only: on a mapping the call raises a
\* TypeError before anything is dispatched
DeleteRoute(st, routes, routeId) ==
    IF ~IsArray(routes)
    THEN << >>
    ELSE LET nextRoutes == Ranked(routes, { k \in DOMAIN routes : routes[k].id # routeId })
         IN  << Dispatch(st, [type |-> UPDATE_ROUTES, payload |-> nextRoutes], Ids) >>

addRoute ==
    \E attrs \in RouteAttrs :
        LET ds == AddRoute(state, state.routes, attrs, nextRouteId)
        IN  /\ nextRouteId <= MaxRouteId
            /\ nextRouteId' = nextRouteId + 1
            /\ state' = StateAfter(state, ds)
            /\ applied' = ds
            /\ UNCHANGED <<ops, fetches, nextIfaceId, nextConnId, form, calc>>

\* the route is named by the key the store lists it under
updateRoute ==
    \E routeId \in DOMAIN state.routes, changes \in RouteChanges :
        LET ds == UpdateRoute(state, state.routes, routeId, changes)
        IN  /\ state' = StateAfter(state, ds)
            /\ applied' = ds
            /\ UNCHANGED <<ops, fetches, nextIfaceId, nextConnId, nextRouteId, form, calc>>

\* the caller hands over the routes of the store, as they are or as the list
\* of them (Object.values)
deleteRoute ==
    \E route \in Values(state.routes), asValues \in BOOLEAN :
        LET routes == IF asValues THEN ObjectValues(state.routes) ELSE state.routes
            ds == DeleteRoute(state, routes, route.id)
        IN  /\ state' = StateAfter(state, ds)
            /\ applied' = ds
            /\ UNCHANGED <<ops, fetches, nextIfaceId, nextConnId, nextRouteId, form, calc>>

NextStore ==
    \/ fetchInterfaces
    \/ fetchConnections
    \/ fetchRoutes
    \/ onInterfaceChange
    \/ dispatchUnknown
    \/ addRoute
    \/ updateRoute
    \/ deleteRoute

SpecStore == Init /\ [][NextStore]_vars

(***************************************************************************)
(* The reducer under the transitions that concern connections and          *)
(* interfaces, dispatched in any order with any payload: the dispatch      *)
(* function is handed to every component by useNetworkDispatch             *)
(***************************************************************************)
MaxConnId == 2

\* the Connections made so far, as they are or with exists changed
MadeConnections ==
    { createConnection([name |-> dev.name, type |-> dev.type, exists |-> exists], id) :
        dev \in Devices, exists \in BOOLEAN, id \in 1..(nextConnId - 1) }

\* a store whose Interfaces bear pairwise distinct names
InitReducer ==
    \E listing \in Listings :
        LET empty == [interfaces |-> EmptyMap, connections |-> EmptyMap, routes |-> EmptyMap]
            first == [iface |-> 1, conn |-> 1, route |-> 1]
        IN  /\ state = Dispatch(empty, [type |-> SET_INTERFACES, payload |-> listing], first).after
            /\ nextIfaceId = 1 + Len(listing)
            /\ ops = << >>
            /\ applied = << >>
            /\ nextConnId = 1
            /\ nextRouteId = 1
            /\ form = NoForm
            /\ calc = NoCalc
            /\ fetches = 0

\* dispatch(action) for an action that takes no new id
DispatchOf(action) ==
    LET d == Dispatch(state, action, Ids)
    IN  /\ state' = d.after
        /\ applied' = << d >>
        /\ UNCHANGED <<ops, fetches, nextIfaceId, nextConnId, nextRouteId, form, calc>>

dispatchAddConnection ==
    \E dev \in Devices, exists \in BOOLEAN :
        LET conn == createConnection([name |-> dev.name, type |-> dev.type,
                                      exists |-> exists], nextConnId)
            d == Dispatch(state, [type |-> ADD_CONNECTION, payload |-> conn], Ids)
        IN  /\ nextConnId <= MaxConnId
            /\ nextConnId' = nextConnId + 1
            /\ nextIfaceId' = nextIfaceId + Cardinality((DOMAIN d.after.interfaces)
                                                        \ (DOMAIN state.interfaces))
            /\ state' = d.after
            /\ applied' = << d >>
            /\ UNCHANGED <<ops, fetches, nextRouteId, form, calc>>

dispatchUpdateConnection ==
    \E conn \in MadeConnections : DispatchOf([type |-> UPDATE_CONNECTION, payload |-> conn])

dispatchDeleteConnection ==
    \E conn \in MadeConnections : DispatchOf([type |-> DELETE_CONNECTION, payload |-> conn])

dispatchConnectionError ==
    \E conn \in MadeConnections, message \in BackendErrors :
        DispatchOf([type |-> CONNECTION_ERROR,
                    payload |-> [error |-> [message |-> message], connection |-> conn]])

NextReducer ==
    \/ dispatchAddConnection
    \/ dispatchUpdateConnection
    \/ dispatchDeleteConnection
    \/ dispatchConnectionError
    \/ onInterfaceChange

SpecReducer == InitReducer /\ [][NextReducer]_vars

(***************************************************************************)
(* Texts: a string the code takes apart is modelled as the sequence of its *)
(* symbols, a symbol being a whitespace character or a run of other        *)
(* characters that the code never looks into                               *)
(***************************************************************************)
\* undefined where a text is expected: no symbol is spelled like this
NoText == << Undefined >>

\* the characters String.prototype.trim removes and /\s/ matches
WhiteSpace == { " ", "\t", "\n" }

RECURSIVE TrimStart(_)
TrimStart(text) ==
    IF text # << >> /\ Head(text) \in WhiteSpace THEN TrimStart(Tail(text)) ELSE text

RECURSIVE TrimEnd(_)
TrimEnd(text) ==
    IF text # << >> /\ text[Len(text)] \in WhiteSpace
    THEN TrimEnd(SubSeq(text, 1, Len(text) - 1))
    ELSE text

\* text.trim()
trim(text) == TrimEnd(TrimStart(text))

\* text.split(separator) for a separator of one character out of seps: the
\* pieces between the separators, empty pieces included
RECURSIVE split(_, _)
split(text, seps) ==
    IF \A i \in DOMAIN text : text[i] \notin seps
    THEN << text >>
    ELSE LET at == CHOOSE i \in DOMAIN text :
                       /\ text[i] \in seps
                       /\ \A j \in 1..(i - 1) : text[j] \notin seps
         IN  << SubSeq(text, 1, at - 1) >> \o split(SubSeq(text, at + 1, Len(text)), seps)

(***************************************************************************)
(* The IP settings form (IPSettingsForm)                                   *)
(***************************************************************************)
\* addresses a form holds at most
MaxAddresses == 2

\* operations a run of the form submits at most; the user is followed until
\* the last of them is submitted, and its callbacks to their end
MaxSubmits == 1

IPV4 == "ipv4"
IPV6 == "ipv6"

\* the messages validate reports
AddressRequired == "At least one address must be provided when using the static boot protocol"
InvalidIPs == "There are invalid IPs"
RepeatedLabels == "There are repeated labels"
SomethingWentWrong == "Something went wrong. Please, try it again."

\* what the user types as the IP of an address: nothing, blanks, an IP with
\* and without prefix length, something that is no IP
Locals ==
    { NoText, << " " >>, << "192.168.1.5" >>, << "192.168.1.5", "/", "24" >>, << "300.1.1" >> }

Labels == { "", "lan", "dmz" }

AddressConfigs == [local : Locals, label : Labels]

AddressLists == UNION { [1..n -> AddressConfigs] : n \in 0..MaxAddresses }

\* createAddressConfig(): local and label default to the empty string
createAddressConfig == [local |-> << >>, label |-> ""]

\* ipaddr.js: isValid(ip), and parseCIDR(value) not throwing
isValid(ip) == ip \in { << "192.168.1.5" >> }

parsesCIDR(value) ==
    /\ Len(value) = 3
    /\ isValid(<< value[1] >>)
    /\ value[2] = "/"
    /\ value[3] \in { "24" }

isValidIP(value) ==
    LET parts == split(value, { "/" })
        ip == parts[1]
        noCidr == Len(parts) < 2 \/ parts[2] = << >>
    IN  IF noCidr THEN isValid(ip) ELSE parsesCIDR(value)

\* collection.findIndex(item => item.local === addr.local && item.label === addr.label)
FirstIndexOfPair(collection, addr) ==
    CHOOSE i \in DOMAIN collection :
        /\ collection[i].local = addr.local /\ collection[i].label = addr.label
        /\ \A j \in 1..(i - 1) :
               ~(collection[j].local = addr.local /\ collection[j].label = addr.label)

\* the entries of collection at the indexes kept, in their order
RECURSIVE Filtered(_, _)
Filtered(collection, kept) ==
    IF collection = << >>
    THEN << >>
    ELSE LET n == Len(collection)
             front == Filtered(SubSeq(collection, 1, n - 1), kept)
         IN  IF n \in kept THEN Append(front, collection[n]) ELSE front

\* a sanitize that keeps every entry that has an IP, duplicates included
sanitizeKeepingDuplicates(addresses) ==
    Filtered(addresses,
             { idx \in DOMAIN addresses :
                 ~(addresses[idx].local = NoText \/ trim(addresses[idx].local) = << >>) })

sanitize(addresses) ==
    Filtered(addresses,
             { idx \in DOMAIN addresses :
                 /\ ~(addresses[idx].local = NoText \/ trim(addresses[idx].local) = << >>)
                 /\ idx = FirstIndexOfPair(addresses, addresses[idx]) })

findInvalidIP(addresses) == \E i \in DOMAIN addresses : ~isValidIP(addresses[i].local)

\* addresses.find((addr, idx, collection) =>
\*     idx !== collection.findIndex(item => item.label === addr.label))
findRepeatedLabel(addresses) ==
    \E idx \in DOMAIN addresses :
        \E j \in 1..(idx - 1) : addresses[j].label = addresses[idx].label

\* the error messages validate sets; it returns true when there are none
validate(bootProto, sanitizedAddresses) ==
    (IF bootProto = STATIC /\ sanitizedAddresses = << >> THEN << AddressRequired >> ELSE << >>)
    \o (IF findInvalidIP(sanitizedAddresses) THEN << InvalidIPs >> ELSE << >>)
    \o (IF findRepeatedLabel(sanitizedAddresses) THEN << RepeatedLabels >> ELSE << >>)

\* the addresses forceAddressesUpdate sets
forceAddressesUpdate(bootProto, nextAddresses) ==
    IF bootProto = STATIC /\ nextAddresses = << >>
    THEN << createAddressConfig >>
    ELSE nextAddresses

\* no form is shown; watching are the operations whose promise still has the
\* callbacks of a submission attached
ClosedForm(watching) == [open |-> FALSE, watching |-> watching]

\* what the last handler of the form was: last is "none" unless it was
\* handleSubmit, whose input is then submitted and whose sanitize(addresses)
\* is sanitized; tick flips at every handleSubmit
Unsubmitted(f) == [f EXCEPT !.last = "none", !.submitted = << >>, !.sanitized = << >>]

\* the form as it mounts; the effect on bootProto runs once on mount
MountedForm(connection, ipVersion, watching) ==
    LET settings == connection[ipVersion]
    IN  [open |-> TRUE, watching |-> watching, connection |-> connection,
         ipVersion |-> ipVersion, bootProto |-> settings.bootProto,
         addresses |-> forceAddressesUpdate(settings.bootProto, settings.addresses),
         addressRequired |-> settings.bootProto = STATIC,
         errorMessages |-> << >>, isApplying |-> FALSE, applyingOp |-> 0,
         last |-> "none", submitted |-> << >>, sanitized |-> << >>, tick |-> FALSE]

\* the store once the interfaces and connections of the system are known
Discovered ==
    LET listing == << [name |-> "eth0"] >>
        first == [iface |-> 1, conn |-> 1, route |-> 1]
        empty == [interfaces |-> EmptyMap, connections |-> EmptyMap, routes |-> EmptyMap]
        known == Dispatch(empty, [type |-> SET_INTERFACES, payload |-> listing], first).after
    IN  Dispatch(known, [type |-> SET_CONNECTIONS, payload |-> listing], first).after

InitForm ==
    /\ state = Discovered
    /\ ops = << >>
    /\ applied = << >>
    /\ nextIfaceId = 2
    /\ nextConnId = 2
    /\ nextRouteId = 1
    /\ form = ClosedForm({})
    /\ calc = NoCalc
    /\ fetches = MaxFetches

\* the user follows the link of one IP family of a connection
openForm ==
    \E connection \in Values(state.connections), ipVersion \in { IPV4, IPV6 } :
        /\ Len(ops) < MaxSubmits
        /\ ~form.open
        /\ form' = MountedForm(connection, ipVersion, form.watching)
        /\ applied' = << >>
        /\ UNCHANGED <<state, ops, fetches, nextIfaceId, nextConnId, nextRouteId, calc>>

\* Cancel, or the closing of the dialog
closeForm ==
    /\ form.open
    /\ form' = ClosedForm(form.watching)
    /\ applied' = << >>
    /\ UNCHANGED <<state, ops, fetches, nextIfaceId, nextConnId, nextRouteId, calc>>

\* the user selects a boot protocol; the effect on bootProto follows
setBootProto ==
    \E value \in { DHCP, STATIC, NONE } :
        /\ Len(ops) < MaxSubmits
        /\ form.open
        /\ form' = Unsubmitted([form EXCEPT
                        !.bootProto = value,
                        !.addresses = forceAddressesUpdate(value, form.addresses),
                        !.addressRequired = (value = STATIC)])
        /\ applied' = << >>
        /\ UNCHANGED <<state, ops, fetches, nextIfaceId, nextConnId, nextRouteId, calc>>

\* the user edits the list of addresses
setAddresses ==
    \E nextAddresses \in AddressLists :
        /\ Len(ops) < MaxSubmits
        /\ form.open
        /\ form.addressRequired => nextAddresses # << >>
        /\ form' = Unsubmitted([form EXCEPT !.addresses = nextAddresses])
        /\ applied' = << >>
        /\ UNCHANGED <<state, ops, fetches, nextIfaceId, nextConnId, nextRouteId, calc>>

\* a handleSubmit that goes on to update the connection whatever validate said
HandleSubmitUnchecked(f, st, o, thrown) ==
    LET sanitizedAddresses == sanitize(f.addresses)
        errors == validate(f.bootProto, sanitizedAddresses)
        changes == [v \in { f.ipVersion } |->
                       [bootProto |-> f.bootProto, addresses |-> sanitizedAddresses]]
        seen == [f EXCEPT !.submitted = f.addresses, !.sanitized = sanitizedAddresses,
                          !.tick = ~f.tick]
    IN  [form |-> [seen EXCEPT !.errorMessages = errors, !.isApplying = TRUE,
                               !.applyingOp = o, !.watching = f.watching \cup { o },
                               !.last = IF errors = << >> THEN "sent" ELSE "invalid"],
         started |-> << UpdateBegin(st, f.connection, changes, thrown) >>]

\* handleSubmit of form f over store st; o is the index the operation it
\* starts gets. It yields the form afterwards and the operation started, if any
HandleSubmit(f, st, o, thrown) ==
    LET sanitizedAddresses == sanitize(f.addresses)
        errors == validate(f.bootProto, sanitizedAddresses)
        changes == [v \in { f.ipVersion } |->
                       [bootProto |-> f.bootProto, addresses |-> sanitizedAddresses]]
        seen == [f EXCEPT !.submitted = f.addresses, !.sanitized = sanitizedAddresses,
                          !.tick = ~f.tick]
    IN  IF errors # << >>
        THEN [form |-> [seen EXCEPT
                           !.addresses = forceAddressesUpdate(f.bootProto, sanitizedAddresses),
                           !.errorMessages = errors, !.isApplying = FALSE,
                           !.last = "invalid"],
              started |-> << >>]
        ELSE [form |-> [seen EXCEPT !.errorMessages = << >>, !.isApplying = TRUE,
                                    !.applyingOp = o, !.watching = f.watching \cup { o },
                                    !.last = "sent"],
              started |-> << UpdateBegin(st, f.connection, changes, thrown) >>]

\* the user presses Apply, which is disabled while a submission is applying
handleSubmit ==
    \E thrown \in BOOLEAN :
        LET r == HandleSubmit(form, state, Len(ops) + 1, thrown)
        IN  /\ Len(ops) < MaxSubmits
            /\ form.open
            /\ ~form.isApplying
            /\ form' = r.form
            /\ IF r.started = << >>
               THEN /\ applied' = << >>
                    /\ UNCHANGED <<state, ops>>
               ELSE Start(r.started[1])
            /\ UNCHANGED <<fetches, nextIfaceId, nextConnId, nextRouteId, calc>>

\* the callbacks of a submission run once its updateConnection settled: then
\* closes the dialog, catch reports to the form that submitted, if still shown
handleSubmit_settled ==
    \E o \in form.watching :
        LET mine == form.open /\ form.isApplying /\ form.applyingOp = o
            left == form.watching \ { o }
        IN  /\ ops[o].pc = "done"
            /\ form' = IF ops[o].handle.st = "resolved"
                       THEN ClosedForm(left)
                       ELSE IF mine
                            THEN Unsubmitted([form EXCEPT
                                     !.watching = left, !.isApplying = FALSE,
                                     !.applyingOp = 0,
                                     !.errorMessages = << SomethingWentWrong >>])
                            ELSE [form EXCEPT !.watching = left]
            /\ applied' = << >>
            /\ UNCHANGED <<state, ops, fetches, nextIfaceId, nextConnId, nextRouteId, calc>>

NextForm ==
    \/ openForm
    \/ closeForm
    \/ setBootProto
    \/ setAddresses
    \/ handleSubmit
    \/ handleSubmit_settled
    \/ updateConnection_updated
    \/ updateConnection_reloaded

SpecForm == InitForm /\ [][NextForm]_vars

(***************************************************************************)
(* The route files (IfrouteParser)                                         *)
(***************************************************************************)
\* lines a route text holds at most
MaxLines == 2

\* the characters of the class [ |\t]: space, vertical bar and tab
Separators == { " ", "|", "\t" }

RECURSIVE DropSeparators(_)
DropSeparators(text) ==
    IF text # << >> /\ Head(text) \in Separators THEN DropSeparators(Tail(text)) ELSE text

\* content.replace(/[ |\t]+/g, ' ')
RECURSIVE Collapse(_)
Collapse(content) ==
    IF content = << >>
    THEN << >>
    ELSE IF Head(content) \in Separators
         THEN << " " >> \o Collapse(DropSeparators(content))
         ELSE << Head(content) >> \o Collapse(Tail(content))

\* columns[k] of line.split(/\s/).map(column => column !== "-" ? column : undefined),
\* k counted from 0
Column(columns, k) ==
    IF k + 1 > Len(columns) \/ columns[k + 1] = << "-" >> THEN NoText ELSE columns[k + 1]

\* the routes the lines add, in their order
RECURSIVE ParsedLines(_)
ParsedLines(lines) ==
    IF lines = << >>
    THEN << >>
    ELSE LET line == trim(Head(lines))
             columns == split(line, WhiteSpace)
         IN  IF line = << >> \/ Head(line) = "#"
             THEN ParsedLines(Tail(lines))
             ELSE << [destination |-> Column(columns, 0), gateway |-> Column(columns, 1),
                      netmask |-> Column(columns, 2), device |-> Column(columns, 3),
                      options |-> Column(columns, 4)] >> \o ParsedLines(Tail(lines))

\* IfrouteParser.parse
parse(content) == ParsedLines(split(Collapse(content), { "\n" }))

\* pieces.join(separator)
RECURSIVE Join(_, _)
Join(pieces, separator) ==
    IF pieces = << >>
    THEN << >>
    ELSE IF Len(pieces) = 1
         THEN pieces[1]
         ELSE pieces[1] \o << separator >> \o Join(Tail(pieces), separator)

\* v || "-"
OrDash(v) == IF v = NoText \/ v = << >> THEN << "-" >> ELSE v

\* a stringify that writes no options
stringifyWithoutOptions(data) ==
    Join([n \in DOMAIN data |->
             Join(<< OrDash(data[n].destination), OrDash(data[n].gateway),
                     OrDash(data[n].netmask), OrDash(NoText), OrDash(NoText) >>, "\t")],
         "\n")

\* IfrouteParser.stringify
stringify(data) ==
    Join([n \in DOMAIN data |->
             Join(<< OrDash(data[n].destination), OrDash(data[n].gateway),
                     OrDash(data[n].netmask), OrDash(NoText), OrDash(data[n].options) >>,
                  "\t")],
         "\n")

\* the lines of the route files read: blank ones, a comment, routes of five
\* columns without and with device, of two and of six columns, and one with a
\* vertical bar in its destination
RouteLines ==
    { << >>,
      << " ", "\t" >>,
      << "#", " ", "eth0" >>,
      << "default", " ", "192.168.1.1", " ", "-", " ", "-", " ", "-" >>,
      << " ", "10.0.0.0", "\t", "\t", "10.0.0.1", " ", "255.0.0.0", " ", "eth0", " ", "mtu" >>,
      << "10.0.0.0", " ", "10.0.0.1" >>,
      << "default", " ", "192.168.1.1", " ", "-", " ", "-", " ", "mtu", " ", "1500" >>,
      << "10.0.0.0", "|", "8", " ", "10.0.0.1", " ", "-", " ", "-", " ", "-" >> }

RouteTexts ==
    { Join(lines, "\n") : lines \in UNION { [1..n -> RouteLines] : n \in 1..MaxLines } }

\* a route text is at hand
InitIfroute ==
    /\ state = [interfaces |-> EmptyMap, connections |-> EmptyMap, routes |-> EmptyMap]
    /\ ops = << >>
    /\ applied = << >>
    /\ nextIfaceId = 1
    /\ nextConnId = 1
    /\ nextRouteId = 1
    /\ form = NoForm
    /\ fetches = 0
    /\ calc \in { [stage |-> "text", content |-> content] : content \in RouteTexts }

\* the text at hand is parsed: the one read, or the one written from its routes
decodeRoutes ==
    /\ \/ /\ calc.stage = "text"
          /\ calc' = [stage |-> "decoded", content |-> calc.content,
                      routes |-> parse(calc.content)]
       \/ /\ calc.stage = "encoded"
          /\ calc' = [stage |-> "decodedAgain", content |-> calc.content,
                      routes |-> calc.routes, written |-> calc.written,
                      routesAgain |-> parse(calc.written)]
    /\ UNCHANGED <<state, ops, applied, fetches, nextIfaceId, nextConnId, nextRouteId, form>>

\* the routes parsed are written
encodeRoutes ==
    /\ calc.stage = "decoded"
    /\ calc' = [stage |-> "encoded", content |-> calc.content, routes |-> calc.routes,
                written |-> stringify(calc.routes)]
    /\ UNCHANGED <<state, ops, applied, fetches, nextIfaceId, nextConnId, nextRouteId, form>>

NextIfroute ==
    \/ decodeRoutes
    \/ encodeRoutes

SpecIfroute == InitIfroute /\ [][NextIfroute]_vars

(***************************************************************************)
(* The interface files (connectionToSysconfig)                             *)
(***************************************************************************)
DHCP4 == "dhcp4"
DHCP6 == "dhcp6"

\* { ...a, ...b }
Spread(a, b) == [k \in (DOMAIN a) \cup (DOMAIN b) |-> IF k \in DOMAIN b THEN b[k] ELSE a[k]]

\* {}
EmptyObject == [k \in {} |-> ""]

\* `_${addressIndex}`, nothing for index 0
Suffix(addressIndex) == IF addressIndex = 0 THEN "" ELSE "_" \o ToString(addressIndex)

\* what the reducer of ipToSysconfig adds for the address at position n + 1
AddressData(address, n, initialIndex) ==
    LET addressIndex == n + initialIndex
        label == IF "label" \in DOMAIN address THEN address.label ELSE ""
        suffix == Suffix(addressIndex)
        data == [k \in { "IPADDR" \o suffix } |-> address.local]
    IN  IF label # "" THEN Spread(data, [k \in { "LABEL" \o suffix } |-> label]) ELSE data

RECURSIVE ReducedAddresses(_, _, _)
ReducedAddresses(addresses, count, initialIndex) ==
    IF count = 0
    THEN EmptyObject
    ELSE Spread(ReducedAddresses(addresses, count - 1, initialIndex),
                AddressData(addresses[count], count - 1, initialIndex))

ipToSysconfig(ip, initialIndex) ==
    IF "addresses" \notin DOMAIN ip
    THEN EmptyObject
    ELSE ReducedAddresses(ip.addresses, Len(ip.addresses), initialIndex)

\* an addressesToSysconfig that numbers the addresses of each family from 0
addressesToSysconfigFromZero(connection) ==
    Spread(ipToSysconfig(connection.ipv4, 0), ipToSysconfig(connection.ipv6, 0))

addressesToSysconfig(connection) ==
    LET ipv4 == ipToSysconfig(connection.ipv4, 0)
        ipv6 == ipToSysconfig(connection.ipv6, Len(connection.ipv4.addresses))
    IN  Spread(ipv4, ipv6)

\* a bootProtoFor that goes by the boot protocols of the families alone
sysconfigBootProtoForByProtocol(connection) ==
    IF connection.ipv4.bootProto = DHCP /\ connection.ipv6.bootProto = DHCP THEN DHCP
    ELSE IF connection.ipv4.bootProto = DHCP THEN DHCP4
    ELSE IF connection.ipv6.bootProto = DHCP THEN DHCP6
    ELSE IF connection.ipv4.bootProto = STATIC \/ connection.ipv6.bootProto = STATIC THEN STATIC
    ELSE NONE

\* bootProtoFor of wicked/files
sysconfigBootProtoFor(connection) ==
    LET ipv4Proto == connection.ipv4.bootProto
        ipv4Addresses == connection.ipv4.addresses
        ipv6Proto == connection.ipv6.bootProto
        ipv6Addresses == connection.ipv6.addresses
    IN  IF ipv4Proto = DHCP /\ ipv6Proto = DHCP THEN DHCP
        ELSE IF ipv4Proto = DHCP THEN DHCP4
        ELSE IF ipv6Proto = DHCP THEN DHCP6
        ELSE IF Len(ipv4Addresses) > 0 \/ Len(ipv6Addresses) > 0 THEN STATIC
        ELSE NONE

\* strings.join(separator)
RECURSIVE JoinStrings(_, _)
JoinStrings(strings, separator) ==
    IF strings = << >>
    THEN ""
    ELSE IF Len(strings) = 1
         THEN strings[1]
         ELSE strings[1] \o separator \o JoinStrings(Tail(strings), separator)

bridgeToSysconfig(connection) ==
    IF "bridge" \notin DOMAIN connection
    THEN EmptyObject
    ELSE [BRIDGE |-> "yes", BRIDGE_PORTS |-> JoinStrings(connection.bridge.ports, " ")]

bondToSysconfig(connection) ==
    IF "bond" \notin DOMAIN connection
    THEN EmptyObject
    ELSE LET bond == connection.bond
             interfaces == [k \in { "BONDING_SLAVE_" \o ToString(n - 1) :
                                        n \in DOMAIN bond.interfaces } |->
                               bond.interfaces[CHOOSE n \in DOMAIN bond.interfaces :
                                                   k = "BONDING_SLAVE_" \o ToString(n - 1)]]
         IN  Spread([BONDING_MASTER |-> "yes",
                     BONDING_MODULE_OPTS |-> "mode=" \o bond.mode \o " " \o bond.options],
                    interfaces)

vlanToSysconfig(connection) ==
    IF "vlan" \notin DOMAIN connection
    THEN EmptyObject
    ELSE [VLAN_ID |-> connection.vlan.vlanId, ETHERDEVICE |-> connection.vlan.parentDevice]

connectionToSysconfig(connection) ==
    Spread(Spread(Spread(Spread([NAME |-> connection.name,
                                 BOOTPROTO |-> sysconfigBootProtoFor(connection),
                                 STARTMODE |-> connection.startMode],
                                addressesToSysconfig(connection)),
                         bridgeToSysconfig(connection)),
                  bondToSysconfig(connection)),
           vlanToSysconfig(connection))

\* the addresses of the connections written, with, without and with an
\* undefined label
Ipv4Addresses ==
    { [local |-> "192.168.1.5/24", label |-> ""],
      [local |-> "10.0.0.7/8", label |-> "lan"],
      [local |-> "172.16.0.9/16"] }

Ipv6Addresses ==
    { [local |-> "fe80::1/64", label |-> ""],
      [local |-> "2001:db8::1/64", label |-> "lan6"] }

IpSettings(addresses) ==
    [bootProto : { DHCP, STATIC, NONE },
     addresses : UNION { [1..n -> addresses] : n \in 0..MaxAddresses }]

\* what a connection has besides its IP settings, by its type
TypeSettings ==
    { [name |-> "eth0", startMode |-> "auto"],
      [name |-> "br0", startMode |-> "auto", bridge |-> [ports |-> << "eth0", "eth1" >>]],
      [name |-> "bond0", startMode |-> "auto",
       bond |-> [mode |-> "active-backup", options |-> "miimon=100",
                 interfaces |-> << "eth0", "eth1" >>]],
      [name |-> "vlan10", startMode |-> "auto",
       vlan |-> [vlanId |-> "10", parentDevice |-> "eth0"]] }

ConnectionsWritten ==
    { Spread(settings, [ipv4 |-> ipv4, ipv6 |-> ipv6]) :
        settings \in TypeSettings, ipv4 \in IpSettings(Ipv4Addresses),
        ipv6 \in IpSettings(Ipv6Addresses) }

\* a connection is about to be written
InitSysconfig ==
    /\ state = [interfaces |-> EmptyMap, connections |-> EmptyMap, routes |-> EmptyMap]
    /\ ops = << >>
    /\ applied = << >>
    /\ nextIfaceId = 1
    /\ nextConnId = 1
    /\ nextRouteId = 1
    /\ form = NoForm
    /\ fetches = 0
    /\ calc \in { [stage |-> "connection", connection |-> connection] :
                    connection \in ConnectionsWritten }

encodeInterfaceConfig ==
    /\ calc.stage = "connection"
    /\ calc' = [stage |-> "sysconfig", connection |-> calc.connection,
                config |-> connectionToSysconfig(calc.connection)]
    /\ UNCHANGED <<state, ops, applied, fetches, nextIfaceId, nextConnId, nextRouteId, form>>

NextSysconfig == encodeInterfaceConfig

SpecSysconfig == InitSysconfig /\ [][NextSysconfig]_vars

(***************************************************************************)
(* Connections from the configuration wicked reports (wicked/connections)  *)
(***************************************************************************)
BONDING == "bond"
ACTIVE_BACKUP == "active-backup"

AUTO == "auto"
HOTPLUG == "hotplug"
IFPLUGD == "ifplugd"
MANUAL == "manual"
NFSROOT == "nfsroot"
OFF == "off"

\* START_MODE[mode]
START_MODE(mode) ==
    CASE mode = "boot" -> AUTO
      [] mode = "hotplug" -> HOTPLUG
      [] mode = "ifplugd" -> IFPLUGD
      [] mode = "manual" -> MANUAL
      [] OTHER -> Undefined

\* a startModeFor that takes every control mode boot for auto
startModeForIgnoringStage(config) ==
    IF "control" \notin DOMAIN config
    THEN OFF
    ELSE START_MODE(Attr(config.control, "mode"))

startModeFor(config) ==
    IF "control" \notin DOMAIN config
    THEN OFF
    ELSE LET mode == Attr(config.control, "mode")
             boot_stage == Attr(config.control, "boot_stage")
             persistent == Attr(config.control, "persistent")
         IN  IF mode = "boot"
             THEN IF boot_stage = "localfs" /\ persistent = "true" THEN NFSROOT ELSE AUTO
             ELSE START_MODE(mode)

\* wickedDhcp?.enabled === 'true'
DhcpEnabled(config, key) == key \in DOMAIN config /\ Attr(config[key], "enabled") = "true"

\* bootProtoFor of wicked/connections
wickedBootProtoFor(config) ==
    IF DhcpEnabled(config, "ipv4:dhcp") \/ DhcpEnabled(config, "ipv6:dhcp")
    THEN DHCP
    ELSE IF "ipv4:static" \in DOMAIN config \/ "ipv6:static" \in DOMAIN config
         THEN STATIC
         ELSE NONE

\* createAddressConfig({ type, local, label }): local and label default to
\* the empty string
createAddressConfigFrom(attrs) ==
    [type |-> attrs.type,
     local |-> IF attrs.local = Undefined THEN "" ELSE attrs.local,
     label |-> IF attrs.label = Undefined THEN "" ELSE attrs.label]

addressesFromConfig(type, addresses) ==
    [n \in DOMAIN addresses |->
        createAddressConfigFrom([type |-> type, local |-> Attr(addresses[n], "local"),
                                 label |-> Attr(addresses[n], "label")])]

\* an ipConfig that takes the connection for dhcp when either family is
ipConfigByEitherDhcp(config, type) ==
    LET hasAddresses == (type \o ":static") \in DOMAIN config
        addresses == IF hasAddresses
                     THEN addressesFromConfig(IPV4, config[type \o ":static"])
                     ELSE << >>
    IN  [bootProto |-> IF DhcpEnabled(config, "ipv4:dhcp") \/ DhcpEnabled(config, "ipv6:dhcp")
                       THEN DHCP
                       ELSE IF Len(addresses) > 0 THEN STATIC ELSE NONE,
         addresses |-> addresses]

ipConfig(config, type) ==
    LET hasAddresses == (type \o ":static") \in DOMAIN config
        addresses == IF hasAddresses
                     THEN addressesFromConfig(IPV4, config[type \o ":static"])
                     ELSE << >>
    IN  [bootProto |-> IF DhcpEnabled(config, type \o ":dhcp")
                       THEN DHCP
                       ELSE IF Len(addresses) > 0 THEN STATIC ELSE NONE,
         addresses |-> addresses]

\* typeFromWicked(config)
typeFromWicked(config) ==
    IF "bond" \in DOMAIN config THEN BONDING
    ELSE IF "bridge" \in DOMAIN config THEN BRIDGE
    ELSE ETHERNET

\* parseInt of the texts wicked reports as MTU
parseInt(text) == CASE text = "1500" -> 1500 [] text = "9000" -> 9000

propsByType(type, config) ==
    IF type = BONDING
    THEN [bond |-> [interfaces |-> IF "slaves" \in DOMAIN config.bond
                                   THEN config.bond.slaves ELSE << >>,
                    mode |-> IF "mode" \in DOMAIN config.bond
                             THEN config.bond.mode ELSE ACTIVE_BACKUP,
                    options |-> IF "options" \in DOMAIN config.bond
                                THEN config.bond.options ELSE ""]]
    ELSE IF type = BRIDGE
         THEN [bridge |-> [ports |-> config.bridge.ports]]
         ELSE EmptyObject

\* what createConnection of wicked/connections hands to the model's
\* createConnection; an undefined mtu or usedBy is left out
WickedAttrs(config) ==
    LET type == typeFromWicked(config)
        link == IF "link" \in DOMAIN config THEN config.link ELSE EmptyObject
        mtu == IF "mtu" \in DOMAIN link
               THEN [mtu |-> parseInt(link.mtu)] ELSE EmptyObject
        usedBy == IF "master" \in DOMAIN link
                  THEN [usedBy |-> link.master] ELSE EmptyObject
    IN  Spread(Spread(Spread(Spread(config,
                                    [name |-> config.name, type |-> type,
                                     startMode |-> startModeFor(config),
                                     ipv4 |-> ipConfig(config, IPV4),
                                     ipv6 |-> ipConfig(config, IPV6),
                                     bootProto |-> wickedBootProtoFor(config)]),
                             mtu),
                      usedBy),
               propsByType(type, config))

\* the configuration with or without the key, which has one of the values
Optional(key, values) == { EmptyObject } \cup { [k \in { key } |-> v] : v \in values }

WickedAddresses(addresses) == UNION { [1..n -> addresses] : n \in 0..MaxAddresses }

WickedDhcp == { [enabled |-> "true"], [enabled |-> "false"] }

WickedControls ==
    { [mode |-> "boot"],
      [mode |-> "boot", boot_stage |-> "localfs", persistent |-> "true"],
      [mode |-> "boot", boot_stage |-> "localfs", persistent |-> "false"],
      [mode |-> "hotplug"], [mode |-> "ifplugd"], [mode |-> "manual"], [mode |-> "off"] }

WickedLinks == { [mtu |-> "1500", master |-> "br0"], [master |-> "br0"] }

WickedTypes ==
    { EmptyObject,
      [bridge |-> [ports |-> << "eth1" >>]],
      [bond |-> [slaves |-> << "eth1", "eth2" >>, mode |-> "802.3ad",
                 options |-> "miimon=100"]],
      [bond |-> EmptyObject] }

\* the configurations wicked reports for eth0
WickedConfigs ==
    { Spread([name |-> "eth0"],
             Spread(static4,
                    Spread(dhcp4,
                           Spread(static6,
                                  Spread(dhcp6, Spread(control, Spread(link, byType))))))) :
        static4 \in Optional("ipv4:static",
                             WickedAddresses({ [local |-> "192.168.1.5", label |-> ""],
                                               [local |-> "10.0.0.7/8", label |-> "lan"] })),
        dhcp4 \in Optional("ipv4:dhcp", WickedDhcp),
        static6 \in Optional("ipv6:static",
                             WickedAddresses({ [local |-> "fe80::1/64", label |-> "lan6"],
                                               [local |-> "2001:db8::1/64"] })),
        dhcp6 \in Optional("ipv6:dhcp", WickedDhcp),
        control \in Optional("control", WickedControls),
        link \in Optional("link", WickedLinks),
        byType \in WickedTypes }

\* wicked reported the configuration of a connection
InitWicked ==
    /\ state = [interfaces |-> EmptyMap, connections |-> EmptyMap, routes |-> EmptyMap]
    /\ ops = << >>
    /\ applied = << >>
    /\ nextIfaceId = 1
    /\ nextConnId = 1
    /\ nextRouteId = 1
    /\ form = NoForm
    /\ fetches = 0
    /\ calc \in { [stage |-> "config", config |-> config] : config \in WickedConfigs }

\* createConnection of wicked/connections
wickedCreateConnection ==
    /\ calc.stage = "config"
    /\ calc' = [stage |-> "created", config |-> calc.config,
                attrs |-> WickedAttrs(calc.config),
                connection |-> createConnection(WickedAttrs(calc.config), nextConnId)]
    /\ nextConnId' = nextConnId + 1
    /\ UNCHANGED <<state, ops, applied, fetches, nextIfaceId, nextRouteId, form>>

NextWicked == wickedCreateConnection

SpecWicked == InitWicked /\ [][NextWicked]_vars

(***************************************************************************)
(* Properties                                                              *)
(***************************************************************************)
Indexes(op) == DOMAIN op.log

IsDispatch(e, type) == e.ev = "dispatch" /\ e.action.type = type

IsCall(e, what) == e.ev = "call" /\ e.what = what

IsSuccess(e, what) == e.ev = "settle" /\ e.what = what /\ e.error = Undefined

IsFailure(e) == e.ev = "settle" /\ e.error # Undefined

\* the optimistic transition of each kind of operation
Optimistic(kind) ==
    CASE kind = "add" -> ADD_CONNECTION
      [] kind = "update" -> UPDATE_CONNECTION
      [] kind = "delete" -> DELETE_CONNECTION
      [] OTHER -> Undefined

OpsOf(kinds) == { o \in DOMAIN ops : ops[o].kind \in kinds }

\* no dispatch of the operation met a reducer that raised
NoneRaised(op) == \A i \in Indexes(op) : op.log[i].ev = "dispatch" => ~op.log[i].raised

\* the log carries CONNECTION_ERROR for the failure logged at i: after it,
\* with the failure's message and the operation's connection
ErrorReported(op, i) ==
    \E j \in Indexes(op) :
        /\ j > i
        /\ IsDispatch(op.log[j], CONNECTION_ERROR)
        /\ op.log[j].action.payload.error.message = op.log[i].error
        /\ op.log[j].action.payload.connection = op.conn

\* C1: in an add or update operation whose backend create/update or reload
\* call failed, exactly one CONNECTION_ERROR is dispatched, it carries the
\* caught failure and the attempted connection, it comes after the optimistic
\* transition, and no backend call is issued after the failure.
C1_FailureReportedOnce ==
    \A o \in OpsOf({"add", "update"}) :
        LET op == ops[o]
        IN  \A i \in Indexes(op) :
                IsFailure(op.log[i]) =>
                    /\ ErrorReported(op, i)
                    /\ Cardinality({ j \in Indexes(op) :
                                        IsDispatch(op.log[j], CONNECTION_ERROR) }) = 1
                    /\ \E k \in Indexes(op) :
                            /\ IsDispatch(op.log[k], Optimistic(op.kind))
                            /\ \A j \in Indexes(op) :
                                   IsDispatch(op.log[j], CONNECTION_ERROR) => k < j
                    /\ \A j \in Indexes(op) : j > i => op.log[j].ev # "call"

\* an add whose reload failed and an update whose backend update failed
C1_Witness ==
    /\ \E o \in OpsOf({"add"}) : \E i \in Indexes(ops[o]) :
            IsFailure(ops[o].log[i]) /\ ops[o].log[i].what = "reloadConnection"
    /\ \E o \in OpsOf({"update"}) : \E i \in Indexes(ops[o]) :
            IsFailure(ops[o].log[i]) /\ ops[o].log[i].what = "updateConnection"

\* C2: in a delete operation whose backend remove or set-down call failed,
\* CONNECTION_ERROR carrying the failure and the deleted connection is
\* dispatched.
C2_DeleteFailureReported ==
    \A o \in OpsOf({"delete"}) :
        \A i \in Indexes(ops[o]) :
            IsFailure(ops[o].log[i]) => ErrorReported(ops[o], i)

\* C3: the promise of a finished operation whose dispatches were all applied
\* is resolved with the connection the operation attempted, whether its
\* backend calls succeeded or failed.
C3_HandleResolvesToConnection ==
    \A o \in DOMAIN ops :
        (ops[o].pc = "done" /\ NoneRaised(ops[o])) =>
            ops[o].handle = ResolvedWith(ops[o].conn)

MarkedExisting(op, i) ==
    /\ IsDispatch(op.log[i], UPDATE_CONNECTION)
    /\ op.log[i].action.payload = [op.conn EXCEPT !.exists = TRUE]

\* C5: an add operation dispatches UPDATE_CONNECTION with exists = true exactly
\* when its backend create call succeeded and the connection did not exist
\* before; reload is called for the connection's name, only after a successful
\* create and after that dispatch, and never after a failed create.
C5_AddMarksExisting ==
    \A o \in OpsOf({"add"}) :
        LET op == ops[o]
            created == \E i \in Indexes(op) : IsSuccess(op.log[i], "addConnection")
        IN  /\ (\E i \in Indexes(op) : MarkedExisting(op, i)) <=> (created /\ ~op.exists)
            /\ \A j \in Indexes(op) :
                   IsCall(op.log[j], "reloadConnection") =>
                       /\ op.log[j].arg = op.conn.name
                       /\ \E i \in Indexes(op) :
                              i < j /\ IsSuccess(op.log[i], "addConnection")
                       /\ ~op.exists =>
                              \E i \in Indexes(op) : i < j /\ MarkedExisting(op, i)
                       /\ ~\E i \in Indexes(op) :
                              IsFailure(op.log[i]) /\ op.log[i].what = "addConnection"

\* an add of a connection that did not exist and one of a connection that did
\* have both reached their reload
C5_Witness ==
    \A exists \in BOOLEAN :
        \E o \in OpsOf({"add"}) :
            /\ ops[o].exists = exists
            /\ \E j \in Indexes(ops[o]) : IsCall(ops[o].log[j], "reloadConnection")

\* C6: an add, update or delete operation that has finished dispatched a
\* follow-up transition after its optimistic one: CONNECTION_ERROR when one of
\* its backend calls failed, a success transition when they all succeeded.
C6_FollowUpDispatched ==
    \A o \in OpsOf({"add", "update", "delete"}) :
        LET op == ops[o]
            failed == \E i \in Indexes(op) : IsFailure(op.log[i])
        IN  (op.pc = "done" /\ NoneRaised(op)) =>
                \E j \in Indexes(op) :
                    /\ j > 1
                    /\ op.log[j].ev = "dispatch"
                    /\ failed <=> op.log[j].action.type = CONNECTION_ERROR

\* the dispatches of the last step for which an Interface named as the
\* connection of the payload existed
AppliedToNamed(type) ==
    { i \in DOMAIN applied :
        /\ applied[i].action.type = type
        /\ HasNamed(applied[i].before.interfaces, applied[i].action.payload.name) }

\* C7: ADD_CONNECTION for a connection named as an existing Interface sets that
\* Interface's status to in-progress, stores the connection under its id and
\* leaves the number of Interfaces unchanged.
C7_AddToExistingInterface ==
    \A i \in AppliedToNamed(ADD_CONNECTION) :
        LET d == applied[i]
            conn == d.action.payload
        IN  /\ HasNamed(d.after.interfaces, conn.name)
            /\ FindByName(d.after.interfaces, conn.name).status = IN_PROGRESS
            /\ conn.id \in DOMAIN d.after.connections
            /\ d.after.connections[conn.id] = conn
            /\ Cardinality(DOMAIN d.after.interfaces) = Cardinality(DOMAIN d.before.interfaces)

\* C8: DELETE_CONNECTION for a connection named as an existing Interface
\* removes the connection's id from the connections; a virtual connection's
\* Interface is removed, a physical one's is kept with status in-progress.
C8_DeleteConnection ==
    \A i \in AppliedToNamed(DELETE_CONNECTION) :
        LET d == applied[i]
            conn == d.action.payload
        IN  /\ conn.id \notin DOMAIN d.after.connections
            /\ conn.virtual => ~HasNamed(d.after.interfaces, conn.name)
            /\ ~conn.virtual =>
                   /\ HasNamed(d.after.interfaces, conn.name)
                   /\ FindByName(d.after.interfaces, conn.name).status = IN_PROGRESS

\* C9: UPDATE_CONNECTION for a connection named as an existing Interface stores
\* the connection under its id, sets the Interface's status to in-progress and
\* leaves it without an error message.
C9_UpdateConnection ==
    \A i \in AppliedToNamed(UPDATE_CONNECTION) :
        LET d == applied[i]
            conn == d.action.payload
        IN  /\ conn.id \in DOMAIN d.after.connections
            /\ d.after.connections[conn.id] = conn
            /\ HasNamed(d.after.interfaces, conn.name)
            /\ FindByName(d.after.interfaces, conn.name).status = IN_PROGRESS
            /\ FindByName(d.after.interfaces, conn.name).error = Undefined

\* C10: UPDATE_CONNECTION for a connection that no Interface is named as is a
\* no-op: the reducer does not raise and returns the state it was given.
C10_UpdateWithoutInterface ==
    \A i \in DOMAIN applied :
        LET d == applied[i]
        IN  (/\ d.action.type = UPDATE_CONNECTION
             /\ ~HasNamed(d.before.interfaces, d.action.payload.name)) =>
                /\ ~d.raised
                /\ d.after = d.before

\* the CONNECTION_ERROR dispatches of the last step for which an Interface
\* named as the connection of the payload existed
ErrorsAppliedToNamed ==
    { i \in DOMAIN applied :
        /\ applied[i].action.type = CONNECTION_ERROR
        /\ HasNamed(applied[i].before.interfaces,
                    applied[i].action.payload.connection.name) }

\* C11: CONNECTION_ERROR for a connection named as an existing Interface sets
\* that Interface's status to error and its error field to the message of the
\* payload's error, and changes no other Interface.
C11_ConnectionError ==
    \A i \in ErrorsAppliedToNamed :
        LET d == applied[i]
            old == FindByName(d.before.interfaces, d.action.payload.connection.name)
        IN  /\ DOMAIN d.after.interfaces = DOMAIN d.before.interfaces
            /\ d.after.interfaces[old.id].status = ERROR
            /\ d.after.interfaces[old.id].error = d.action.payload.error.message
            /\ \A k \in DOMAIN d.before.interfaces \ {old.id} :
                   d.after.interfaces[k] = d.before.interfaces[k]

\* the dispatches of the last step that refer to an Interface the store does
\* not hold: CONNECTION_ERROR for a connection no Interface is named as, and
\* DELETE_CONNECTION of a virtual connection no Interface is named as
AppliedToAbsent ==
    { i \in DOMAIN applied :
        \/ /\ applied[i].action.type = CONNECTION_ERROR
           /\ ~HasNamed(applied[i].before.interfaces,
                        applied[i].action.payload.connection.name)
        \/ /\ applied[i].action.type = DELETE_CONNECTION
           /\ applied[i].action.payload.virtual
           /\ ~HasNamed(applied[i].before.interfaces, applied[i].action.payload.name) }

\* C12: a transition that refers to an Interface name the store does not hold
\* is a no-op and never fatal: CONNECTION_ERROR for a connection without
\* Interface and DELETE_CONNECTION of a virtual connection without Interface do
\* not raise and leave the interfaces mapping as it was.
C12_AbsentInterfaceIsNoOp ==
    \A i \in AppliedToAbsent :
        /\ ~applied[i].raised
        /\ applied[i].after.interfaces = applied[i].before.interfaces

\* C13: UPDATE_INTERFACE for the name of an existing Interface replaces that
\* Interface's fields with the payload's and keeps it under its original id:
\* the entry's key and id field are the old id even when the payload carries
\* another id, no entry exists under the payload's id, and nothing else of the
\* store changes.
C13_UpdateInterfaceKeepsId ==
    \A i \in AppliedToNamed(UPDATE_INTERFACE) :
        LET d == applied[i]
            payload == d.action.payload
            old == FindByName(d.before.interfaces, payload.name)
        IN  /\ ~d.raised
            /\ DOMAIN d.after.interfaces = DOMAIN d.before.interfaces
            /\ d.after.interfaces[old.id].id = old.id
            /\ \A f \in (DOMAIN payload) \ {"id"} :
                   d.after.interfaces[old.id][f] = payload[f]
            /\ payload.id # old.id => payload.id \notin DOMAIN d.after.interfaces
            /\ \A k \in DOMAIN d.before.interfaces \ {old.id} :
                   d.after.interfaces[k] = d.before.interfaces[k]
            /\ d.after.connections = d.before.connections
            /\ d.after.routes = d.before.routes

\* a notification with an id of its own was applied to one of two Interfaces
\* and changed a field of it
C13_Witness ==
    \E i \in AppliedToNamed(UPDATE_INTERFACE) :
        LET d == applied[i]
            old == FindByName(d.before.interfaces, d.action.payload.name)
        IN  /\ d.action.payload.id # old.id
            /\ Cardinality(DOMAIN d.before.interfaces) = 2
            /\ d.after.interfaces[old.id] # old
            /\ d.after.interfaces[old.id].link = d.action.payload.link

\* C14: UPDATE_INTERFACE for a name no Interface has returns the state it was
\* given and does not raise: no Interface is created and nothing is modified.
C14_UpdateUnknownInterface ==
    \A i \in DOMAIN applied :
        LET d == applied[i]
        IN  (/\ d.action.type = UPDATE_INTERFACE
             /\ ~HasNamed(d.before.interfaces, d.action.payload.name)) =>
                /\ ~d.raised
                /\ d.after = d.before

\* a notification about br0 reached a store that holds eth0 only
C14_Witness ==
    \E i \in DOMAIN applied :
        LET d == applied[i]
        IN  /\ d.action.type = UPDATE_INTERFACE
            /\ ~HasNamed(d.before.interfaces, d.action.payload.name)
            /\ d.before.interfaces # EmptyMap
            /\ state = d.before

\* C15: SET_INTERFACES replaces the whole interfaces mapping: afterwards it
\* holds exactly one Interface per payload item, of the item's name and type
\* (ethernet when the item gives none), under its own id; none of the previous
\* entries; no in-progress or error status and no error message; connections
\* and routes are as before.
C15_SetInterfacesReplaces ==
    \A i \in DOMAIN applied :
        LET d == applied[i]
            payload == d.action.payload
            after == d.after.interfaces
        IN  d.action.type = SET_INTERFACES =>
                /\ ~d.raised
                /\ Cardinality(DOMAIN after) = Len(payload)
                /\ \A p \in DOMAIN payload :
                       \E k \in DOMAIN after :
                           /\ after[k].id = k
                           /\ after[k].name = payload[p].name
                           /\ after[k].type = IF "type" \in DOMAIN payload[p]
                                              THEN payload[p].type
                                              ELSE ETHERNET
                /\ (DOMAIN after) \cap (DOMAIN d.before.interfaces) = {}
                /\ Values(after) \cap Values(d.before.interfaces) = {}
                /\ \A k \in DOMAIN after :
                       after[k].status = IDLE /\ after[k].error = Undefined
                /\ d.after.connections = d.before.connections
                /\ d.after.routes = d.before.routes

\* a discovery of two Interfaces replaced a mapping that held an Interface
\* with an error message, in a store that holds a connection
C15_Witness ==
    \E i \in DOMAIN applied :
        LET d == applied[i]
        IN  /\ d.action.type = SET_INTERFACES
            /\ Len(d.action.payload) = 2
            /\ \E k \in DOMAIN d.before.interfaces :
                   d.before.interfaces[k].error # Undefined
            /\ d.before.connections # EmptyMap
            /\ state = d.after

\* the action types networkReducer has a case for
KnownTypes ==
    { SET_INTERFACES, SET_CONNECTIONS, SET_ROUTES, UPDATE_ROUTES, ADD_CONNECTION,
      DELETE_CONNECTION, UPDATE_CONNECTION, UPDATE_INTERFACE, CONNECTION_ERROR }

\* C16: an action whose type is none of the known ones leaves the state as it
\* was and does not make the reducer raise.
C16_UnknownActionIgnored ==
    \A i \in DOMAIN applied :
        LET d == applied[i]
        IN  d.action.type \notin KnownTypes =>
                /\ ~d.raised
                /\ d.after = d.before

\* an action of unknown type reached a store that holds Interfaces and routes
C16_Witness ==
    \E i \in DOMAIN applied :
        LET d == applied[i]
        IN  /\ d.action.type \notin KnownTypes
            /\ d.before.interfaces # EmptyMap
            /\ d.before.routes # EmptyMap
            /\ state = d.before

\* C17: a state toggle (set up or set down) dispatches nothing before its
\* backend call and nothing when the call succeeds; when the call fails it
\* dispatches CONNECTION_ERROR, carrying the failure and the connection, once
\* and nothing else.
C17_ToggleDispatches ==
    \A o \in OpsOf({"toggle"}) :
        LET op == ops[o]
            dispatches == { i \in Indexes(op) : op.log[i].ev = "dispatch" }
            failures == { i \in Indexes(op) : IsFailure(op.log[i]) }
        IN  /\ IsCall(op.log[1], ToggleCall(op.setUp))
            /\ Cardinality({ i \in Indexes(op) : op.log[i].ev = "call" }) = 1
            /\ failures = {} => dispatches = {}
            /\ \A i \in failures :
                   /\ Cardinality(dispatches) = 1
                   /\ ErrorReported(op, i)

\* one state toggle succeeded and another one failed
C17_Witness ==
    /\ \E o \in OpsOf({"toggle"}) :
           /\ ops[o].pc = "done"
           /\ \E i \in Indexes(ops[o]) : IsSuccess(ops[o].log[i], ToggleCall(ops[o].setUp))
    /\ \E o \in OpsOf({"toggle"}) :
           /\ ops[o].pc = "done"
           /\ \E i \in Indexes(ops[o]) : IsFailure(ops[o].log[i])

\* C18: in every state reached by add, update and delete operations and
\* SET_CONNECTIONS resyncs, the connections mapping holds at most one
\* Connection per name.
C18_OneConnectionPerName ==
    \A j \in DOMAIN state.connections, k \in DOMAIN state.connections :
        state.connections[j].name = state.connections[k].name => j = k

\* C19: an Interface whose operation failed shows status error and the
\* failure's message, and the optimistic transition of a new add or update
\* operation for the same name leaves it without error message.
C19_ErrorShownThenCleared ==
    /\ \A i \in ErrorsAppliedToNamed :
           LET d == applied[i]
               iface == FindByName(d.after.interfaces, d.action.payload.connection.name)
           IN  /\ iface.status = ERROR
               /\ iface.error = d.action.payload.error.message
    /\ \A type \in {ADD_CONNECTION, UPDATE_CONNECTION} :
           \A i \in AppliedToNamed(type) :
               LET d == applied[i]
               IN  FindByName(d.after.interfaces, d.action.payload.name).error = Undefined

\* every entry of the mapping is stored under its own id
KeyedById(m) == \A k \in DOMAIN m : m[k].id = k

\* C20: in every reachable state the interfaces, the connections and the
\* routes are each a mapping whose every entry is stored under its own id,
\* also after the route operations that dispatch UPDATE_ROUTES.
C20_KeyedById ==
    /\ KeyedById(state.interfaces)
    /\ KeyedById(state.connections)
    /\ KeyedById(state.routes)

(***************************************************************************)
(* The IP settings form                                                    *)
(***************************************************************************)
\* the step is a run of handleSubmit in a form that stays shown
Submits == form.open /\ form'.open /\ form'.tick # form.tick

\* C21: when validation fails (no address under the static protocol, an
\* invalid IP or a repeated label), submitting the form dispatches nothing
\* and starts no operation, hence no backend call: the store is unchanged and
\* the messages of the validation are set on the form, which is not applying
C21_InvalidFormReachesNothing ==
    [][(Submits /\ validate(form.bootProto, sanitize(form.addresses)) # << >>)
           => /\ state' = state
              /\ ops' = ops
              /\ applied' = << >>
              /\ form'.errorMessages = validate(form.bootProto, sanitize(form.addresses))
              /\ ~form'.isApplying]_vars

\* a submission was turned down for an invalid IP and a repeated label
C21_Witness ==
    /\ form.open
    /\ form.last = "invalid"
    /\ form.errorMessages = << InvalidIPs, RepeatedLabels >>
    /\ ops = << >>

\* the text is undefined or has nothing but whitespace in it
IsBlank(local) == local = NoText \/ \A i \in DOMAIN local : local[i] \in WhiteSpace

SamePair(a, b) == a.local = b.local /\ a.label = b.label

\* the index of the first entry of addresses with the (local, label) of addr
FirstOf(addresses, addr) ==
    CHOOSE i \in DOMAIN addresses :
        /\ SamePair(addresses[i], addr)
        /\ \A j \in DOMAIN addresses : SamePair(addresses[j], addr) => i <= j

\* C28: sanitize(addresses) holds no entry whose local is undefined or blank
\* and no two entries with the same (local, label) pair; it holds every other
\* entry of addresses, in the order of their first occurrences
C28_Sanitize ==
    (form.open /\ form.last # "none") =>
        LET addresses == form.submitted
            result == form.sanitized
        IN  /\ \A i \in DOMAIN result : ~IsBlank(result[i].local)
            /\ \A i, j \in DOMAIN result : SamePair(result[i], result[j]) => i = j
            /\ { result[i] : i \in DOMAIN result }
                   = { addresses[i] : i \in { k \in DOMAIN addresses :
                                                  ~IsBlank(addresses[k].local) } }
            /\ \A i, j \in DOMAIN result :
                   i < j => FirstOf(addresses, result[i]) < FirstOf(addresses, result[j])

\* a submission whose second address repeated the first one
C28_Witness ==
    /\ form.open
    /\ form.last # "none"
    /\ Len(form.submitted) = 2
    /\ form.submitted[1] = form.submitted[2]
    /\ form.sanitized = << form.submitted[1] >>

\* C29: validation of a sanitized list reports a repeated label if and only
\* if two of its addresses share the same label and that label is not empty
C29_RepeatedLabel ==
    (form.open /\ form.last # "none") =>
        ((\E i \in DOMAIN form.errorMessages : form.errorMessages[i] = RepeatedLabels)
         <=> \E i, j \in DOMAIN form.sanitized :
                 /\ i < j
                 /\ form.sanitized[i].label = form.sanitized[j].label
                 /\ form.sanitized[i].label # "")

\* C22: the update operation dispatches UPDATE_CONNECTION with, and sends to
\* the backend, the Connection mergeConnection yields: the family given in
\* the changes is replaced as a whole by the one given, the other family and
\* every other field (id and name among them) are those of the existing one
C22_UpdateSendsMerged ==
    (form.open /\ form.last = "sent") =>
        LET op == ops[form.applyingOp]
            existing == form.connection
            merged == op.conn
            given == [bootProto |-> form.bootProto, addresses |-> form.sanitized]
        IN  /\ op.kind = "update"
            /\ DOMAIN merged = DOMAIN existing
            /\ \A f \in DOMAIN existing :
                   merged[f] = IF f = form.ipVersion THEN given ELSE existing[f]
            /\ op.log[1].ev = "dispatch"
            /\ op.log[1].action = [type |-> UPDATE_CONNECTION, payload |-> merged]
            /\ op.log[2] = Called("updateConnection", merged)

\* an update of the IPv6 settings of a connection went to the backend
C22_Witness ==
    /\ form.open
    /\ form.last = "sent"
    /\ form.ipVersion = IPV6
    /\ form.sanitized # << >>
    /\ ops[form.applyingOp].conn.ipv6 # form.connection.ipv6
    /\ ops[form.applyingOp].conn.ipv4 = form.connection.ipv4
    /\ ops[form.applyingOp].pc = "awaitReload"

(***************************************************************************)
(* The route files                                                         *)
(***************************************************************************)
\* where the whitespace-separated columns of a line start, and where the
\* column starting at i ends
ColumnStarts(line) ==
    { i \in DOMAIN line : line[i] \notin WhiteSpace /\ (i = 1 \/ line[i - 1] \in WhiteSpace) }

ColumnEnd(line, i) ==
    CHOOSE e \in i..Len(line) :
        /\ \A j \in i..e : line[j] \notin WhiteSpace
        /\ e = Len(line) \/ line[e + 1] \in WhiteSpace

\* the k-th column of the line, absent when it is - or the line has none
Field(line, k) ==
    IF k > Cardinality(ColumnStarts(line))
    THEN NoText
    ELSE LET at == CHOOSE i \in ColumnStarts(line) :
                       Cardinality({ j \in ColumnStarts(line) : j < i }) = k - 1
             column == SubSeq(line, at, ColumnEnd(line, at))
         IN  IF column = << "-" >> THEN NoText ELSE column

\* the line is neither blank nor a comment
IsRouteLine(line) == ColumnStarts(line) # {} /\ Field(line, 1)[1] # "#"

\* the line has exactly the five columns of a route
IsWellFormedLine(line) == IsRouteLine(line) /\ Cardinality(ColumnStarts(line)) = 5

NoBar(content) == \A i \in DOMAIN content : content[i] # "|"

\* every line of the text that is neither blank nor a comment has five
\* columns, separated by whitespace
WellFormed(content) ==
    /\ NoBar(content)
    /\ \A line \in { split(content, { "\n" })[n] : n \in DOMAIN split(content, { "\n" }) } :
           IsRouteLine(line) => IsWellFormedLine(line)

\* one Route per line, the columns mapped positionally
RoutesOfLines(lines) ==
    [n \in DOMAIN lines |->
        [destination |-> Field(lines[n], 1), gateway |-> Field(lines[n], 2),
         netmask |-> Field(lines[n], 3), device |-> Field(lines[n], 4),
         options |-> Field(lines[n], 5)]]

C24_MalformedLineSkipped ==
    (calc.stage = "decoded" /\ NoBar(calc.content))
        => calc.routes
               = RoutesOfLines(SelectSeq(split(calc.content, { "\n" }), IsWellFormedLine))

\* C25: decodeRoutes yields exactly one Route per line that is neither blank
\* nor a comment, in line order, its whitespace-separated columns mapped
\* positionally to destination, gateway, netmask, device and options and a
\* column - to an absent field; comments and blank lines alone yield no route
C25_OneRoutePerLine ==
    calc.stage = "decoded"
        => calc.routes = RoutesOfLines(SelectSeq(split(calc.content, { "\n" }), IsRouteLine))

(***************************************************************************)
(* The interface files                                                     *)
(***************************************************************************)
\* the keys connectionToSysconfig writes for other things than addresses
OtherKeys ==
    { "NAME", "BOOTPROTO", "STARTMODE", "BRIDGE", "BRIDGE_PORTS", "BONDING_MASTER",
      "BONDING_MODULE_OPTS", "BONDING_SLAVE_0", "BONDING_SLAVE_1", "VLAN_ID", "ETHERDEVICE" }

\* the key of the given name for the address of index k
KeyOf(name, k) == IF k = 0 THEN name ELSE name \o "_" \o ToString(k)

HasLabel(address) == "label" \in DOMAIN address /\ address.label # ""

\* C26: for a Connection with M IPv4 and N IPv6 addresses the configuration
\* has exactly M+N IPADDR keys, the i-th IPv4 address at index i and the j-th
\* IPv6 address at index M+j, index 0 unsuffixed and index k>0 suffixed _k,
\* and a LABEL key of the same suffix exactly for the addresses with a
\* non-empty label; without addresses it has no IPADDR and no LABEL key
C26_AddressKeys ==
    calc.stage = "sysconfig" =>
        LET all == calc.connection.ipv4.addresses \o calc.connection.ipv6.addresses
            config == calc.config
            indexes == 0..(Len(all) - 1)
        IN  /\ (DOMAIN config) \ OtherKeys
                   = { KeyOf("IPADDR", k) : k \in indexes }
                         \cup { KeyOf("LABEL", k) : k \in { i \in indexes : HasLabel(all[i + 1]) } }
            /\ Cardinality({ KeyOf("IPADDR", k) : k \in indexes }) = Len(all)
            /\ \A k \in indexes :
                   /\ config[KeyOf("IPADDR", k)] = all[k + 1].local
                   /\ HasLabel(all[k + 1]) => config[KeyOf("LABEL", k)] = all[k + 1].label

\* two IPv4 and two IPv6 addresses, some with a label, were written
C26_Witness ==
    /\ calc.stage = "sysconfig"
    /\ Len(calc.connection.ipv4.addresses) = 2
    /\ Len(calc.connection.ipv6.addresses) = 2
    /\ "LABEL_3" \in DOMAIN calc.config
    /\ "LABEL" \notin DOMAIN calc.config
    /\ calc.config["IPADDR_2"] = "fe80::1/64"

\* C27: BOOTPROTO is dhcp when the bootProto of both families is dhcp, dhcp4
\* when only IPv4's is, dhcp6 when only IPv6's is, static when neither is and
\* some family has an address, and none otherwise
C27_BootProto ==
    calc.stage = "sysconfig" =>
        LET dhcp4 == calc.connection.ipv4.bootProto = "dhcp"
            dhcp6 == calc.connection.ipv6.bootProto = "dhcp"
            addressed == calc.connection.ipv4.addresses # << >>
                             \/ calc.connection.ipv6.addresses # << >>
            value == calc.config["BOOTPROTO"]
        IN  /\ value = "dhcp" <=> (dhcp4 /\ dhcp6)
            /\ value = "dhcp4" <=> (dhcp4 /\ ~dhcp6)
            /\ value = "dhcp6" <=> (~dhcp4 /\ dhcp6)
            /\ value = "static" <=> (~dhcp4 /\ ~dhcp6 /\ addressed)
            /\ value = "none" <=> (~dhcp4 /\ ~dhcp6 /\ ~addressed)

\* a connection whose families are set to none and static without any
\* address of the static one was written
C27_Witness ==
    /\ calc.stage = "sysconfig"
    /\ calc.connection.ipv4.bootProto = "none"
    /\ calc.connection.ipv6.bootProto = "static"
    /\ calc.connection.ipv4.addresses # << >>
    /\ calc.connection.ipv6.addresses = << >>
    /\ calc.config["BOOTPROTO"] = "static"

(***************************************************************************)
(* Connections from the configuration wicked reports                       *)
(***************************************************************************)
\* the static addresses the payload holds for the family
StaticAddresses(config, family) ==
    IF (family \o ":static") \in DOMAIN config THEN config[family \o ":static"] ELSE << >>

\* the payload naming eth0 with one static IPv4 address
OneStaticAddress ==
    [k \in { "name", "ipv4:static" } |->
        IF k = "name" THEN "eth0" ELSE << [local |-> "192.168.1.5", label |-> ""] >>]

\* C30: for each IP family on its own, createConnection sets bootProto to
\* dhcp when the family's dhcp is enabled, else to static when the payload
\* holds a static address of the family, else to none, and the addresses of
\* the family are the static addresses of the payload, in their order, with
\* their local and label; the payload naming eth0 with the one static IPv4
\* address 192.168.1.5 yields ipv4.bootProto = static and one Address
C30_IpConfigPerFamily ==
    calc.stage = "created" =>
        /\ \A family \in { "ipv4", "ipv6" } :
               LET given == StaticAddresses(calc.config, family)
                   enabled == /\ (family \o ":dhcp") \in DOMAIN calc.config
                              /\ calc.config[family \o ":dhcp"].enabled = "true"
                   made == calc.connection[family]
               IN  /\ made.bootProto = IF enabled THEN "dhcp"
                                       ELSE IF given # << >> THEN "static" ELSE "none"
                   /\ Len(made.addresses) = Len(given)
                   /\ \A n \in DOMAIN given :
                          /\ made.addresses[n].local = given[n].local
                          /\ made.addresses[n].label
                                 = IF "label" \in DOMAIN given[n] THEN given[n].label ELSE ""
        /\ calc.config = OneStaticAddress
               => /\ calc.connection.name = "eth0"
                  /\ calc.connection.ipv4.bootProto = "static"
                  /\ Len(calc.connection.ipv4.addresses) = 1
                  /\ calc.connection.ipv4.addresses[1].local = "192.168.1.5"

\* a connection with dhcp for IPv6 and two static IPv4 addresses was created
C30_Witness ==
    /\ calc.stage = "created"
    /\ calc.connection.ipv4.bootProto = "static"
    /\ Len(calc.connection.ipv4.addresses) = 2
    /\ calc.connection.ipv6.bootProto = "dhcp"
    /\ calc.connection.ipv6.addresses # << >>

\* C31: createConnection derives startMode from the control info of the
\* payload: off when there is none; for mode boot, nfsroot when boot_stage is
\* localfs and persistent is true, and auto otherwise; hotplug, ifplugd and
\* manual give the start mode of the same name
C31_StartMode ==
    calc.stage = "created" =>
        LET startMode == calc.attrs.startMode
            control == calc.config.control
            staged == /\ "boot_stage" \in DOMAIN control /\ control.boot_stage = "localfs"
                      /\ "persistent" \in DOMAIN control /\ control.persistent = "true"
        IN  IF "control" \notin DOMAIN calc.config
            THEN startMode = "off"
            ELSE /\ control.mode = "boot" => startMode = IF staged THEN "nfsroot" ELSE "auto"
                 /\ control.mode \in { "hotplug", "ifplugd", "manual" }
                        => startMode = control.mode

\* a connection brought up at boot from a local file system, kept, was created
C31_Witness ==
    /\ calc.stage = "created"
    /\ "control" \in DOMAIN calc.config
    /\ calc.config.control
           = [mode |-> "boot", boot_stage |-> "localfs", persistent |-> "true"]
    /\ calc.attrs.startMode = "nfsroot"

(***************************************************************************)
(* Operations that overlap                                                 *)
(***************************************************************************)
\* C32: an update issued for a connection after an add of it, be the add
\* still in flight, is not overwritten by the follow-up UPDATE_CONNECTION
\* (exists = true) of the add: once both have settled, the Connection stored
\* under the id carries the IP settings of the update
C32_UpdateSurvivesAdd ==
    \A a \in OpsOf({"add"}) : \A u \in OpsOf({"update"}) :
        (/\ a < u
         /\ ops[a].conn.id = ops[u].conn.id
         /\ ops[a].pc = "done" /\ ops[u].pc = "done"
         /\ NoneRaised(ops[a]) /\ NoneRaised(ops[u])
         /\ ops[u].conn.id \in DOMAIN state.connections)
            => /\ state.connections[ops[u].conn.id].ipv4 = ops[u].conn.ipv4
               /\ state.connections[ops[u].conn.id].ipv6 = ops[u].conn.ipv6

\* the operation's DELETE_CONNECTION was applied by the reducer
Deleted(op) ==
    \E i \in Indexes(op) : IsDispatch(op.log[i], DELETE_CONNECTION) /\ ~op.log[i].raised

\* C33: once a delete has been issued for a connection its id is not in the
\* connections mapping again (an add makes a new id), and the follow-up
\* UPDATE_CONNECTION of an add that was in flight when the delete was issued
\* neither puts the connection back nor raises
C33_DeletedStaysDeleted ==
    \A d \in OpsOf({"delete"}) :
        Deleted(ops[d]) =>
            /\ ops[d].conn.id \notin DOMAIN state.connections
            /\ \A a \in OpsOf({"add"}) :
                   (a < d /\ ops[a].conn.id = ops[d].conn.id) => NoneRaised(ops[a])

\* the part of C33 about the mapping alone
C33_NotReinserted ==
    \A d \in OpsOf({"delete"}) :
        Deleted(ops[d]) => ops[d].conn.id \notin DOMAIN state.connections

\* the part of C33 about the reducer raising alone
C33_FollowUpNotRaising ==
    \A d \in OpsOf({"delete"}) : \A a \in OpsOf({"add"}) :
        (Deleted(ops[d]) /\ a < d /\ ops[a].conn.id = ops[d].conn.id) => NoneRaised(ops[a])

\* the store shows the Interface as failed: the reducer records a failure in
\* the error field and never writes the status, so either counts
InError(iface) == iface.status = ERROR \/ iface.error # Undefined

\* the operation failed: a backend call of it was rejected or threw, or a
\* dispatch of it met a reducer that raised
Failed(op) == (\E i \in Indexes(op) : IsFailure(op.log[i])) \/ ~NoneRaised(op)

\* the operations issued on connections of the name
IssuedOn(name) == { o \in DOMAIN ops : ops[o].conn.name = name }

\* no operation was issued after o on the connection of o (operations are
\* kept in the order of issue)
IssuedLast(o) == \A other \in DOMAIN ops : ops[other].conn.id = ops[o].conn.id => other <= o

\* C34: an Interface is in error only if the operation issued last on its
\* connection failed; the failure of an earlier operation that settles after
\* a later one on the same connection was issued does not leave the
\* Interface in error
C34_ErrorOfLatest ==
    \A id \in DOMAIN state.interfaces :
        InError(state.interfaces[id]) =>
            \E o \in IssuedOn(state.interfaces[id].name) : Failed(ops[o]) /\ IssuedLast(o)

\* the part of C34 about a failure that settles late: the step that reports
\* the failure of an operation after which another was issued on the same
\* connection does not leave the Interface in error
C34_LateFailure ==
    \A o \in DOMAIN ops :
        (/\ ~IssuedLast(o)
         /\ ops[o].log # <<>>
         /\ IsDispatch(ops[o].log[Len(ops[o].log)], CONNECTION_ERROR)
         /\ applied # <<>>
         /\ applied[Len(applied)].action = ops[o].log[Len(ops[o].log)].action)
            => \A id \in DOMAIN state.interfaces :
                   state.interfaces[id].name = ops[o].conn.name => ~InError(state.interfaces[id])

\* the operations whose failure the last step reported: the step ended with
\* their dispatch of CONNECTION_ERROR
ReportedNow ==
    { o \in DOMAIN ops :
        /\ ops[o].log # <<>> /\ applied # <<>>
        /\ IsDispatch(ops[o].log[Len(ops[o].log)], CONNECTION_ERROR)
        /\ applied[Len(applied)].action = ops[o].log[Len(ops[o].log)].action }

HasConnectionNamed(name) ==
    \E id \in DOMAIN state.connections : state.connections[id].name = name

\* C36: under add and delete operations, their follow-ups and SET_CONNECTIONS
\* resyncs, no virtual Interface made by ADD_CONNECTION is in the store
\* without a Connection of its name
C36_VirtualHasConnection ==
    \A id \in DOMAIN state.interfaces :
        state.interfaces[id].virtual => HasConnectionNamed(state.interfaces[id].name)

\* the Interfaces of the store bear pairwise distinct names
DistinctNames(st) ==
    \A i, j \in DOMAIN st.interfaces :
        st.interfaces[i].name = st.interfaces[j].name => i = j

\* C37: from a store whose Interfaces bear pairwise distinct names, under
\* ADD_CONNECTION, UPDATE_CONNECTION, DELETE_CONNECTION, UPDATE_INTERFACE and
\* CONNECTION_ERROR in any order, no two Interfaces share a name
C37_DistinctNames == DistinctNames(state)

\* ADD_CONNECTION has just been applied for a name that an Interface bore,
\* after an UPDATE_INTERFACE had replaced an Interface, with two Interfaces
\* in the store
C37_Witness ==
    /\ AppliedToNamed(ADD_CONNECTION) # {}
    /\ Cardinality(DOMAIN state.interfaces) = 2
    /\ \E id \in DOMAIN state.interfaces : "link" \in DOMAIN state.interfaces[id]

\* the step logs the failure of a backend call of operation o
FailsNow(o) ==
    \E i \in (Len(ops[o].log) + 1)..Len(ops'[o].log) : IsFailure(ops'[o].log[i])

\* C38: a failed operation is not rolled back. CONNECTION_ERROR changes no
\* more than the Interface that bears the connection's name and leaves the
\* connections and the routes as they are, and the step in which the call of
\* an add, update or delete fails leaves connections and routes as they
\* were: what the operation put into the store stays, what it removed stays
\* removed
C38_NoRollback ==
    [][/\ \A i \in DOMAIN applied' :
              LET d == applied'[i]
              IN  d.action.type = CONNECTION_ERROR =>
                      /\ d.after.connections = d.before.connections
                      /\ d.after.routes = d.before.routes
                      /\ DOMAIN d.after.interfaces = DOMAIN d.before.interfaces
                      /\ \A k \in DOMAIN d.before.interfaces :
                             d.before.interfaces[k].name # d.action.payload.connection.name
                                 => d.after.interfaces[k] = d.before.interfaces[k]
       /\ \A o \in DOMAIN ops :
              FailsNow(o) =>
                  /\ state'.connections = state.connections
                  /\ state'.routes = state.routes]_vars

\* the failure of an add has just been reported on its Interface and the
\* Connection the add put into the store is still there
C38_Witness ==
    \E o \in ReportedNow :
        /\ ops[o].kind = "add"
        /\ \E i \in Indexes(ops[o]) : IsFailure(ops[o].log[i])
        /\ ~applied[Len(applied)].raised
        /\ ops[o].conn.id \in DOMAIN state.connections
        /\ state.connections[ops[o].conn.id] = ops[o].conn
====
